---- MODULE Spec2Model ----
(***************************************************************************)
(* Model of the Net RTR workbook patcher of Excelerate-Desktop:            *)
(*   - PyodideService (pyodide-service.ts): the singleton engine           *)
(*     bootstrap, updatePortfolioWorkbookWithNetRtr and preload;           *)
(*   - the Python patch script embedded in that service (column naming,    *)
(*     column placement, row matching and writing);                        *)
(*   - ExcelService.generateNetRtrColumnName (excel-service.ts).           *)
(* Texts are TLA+ strings, handled as sequences of characters.             *)
(***************************************************************************)
EXTENDS Integers, Sequences, FiniteSets, TLC

(***************************************************************************)
(* Text helpers: the string methods the code relies on.                    *)
(***************************************************************************)

\* c is one of the whitespace characters str.strip() removes
IsSpace(c) == c = " "

RECURSIVE LStrip(_)
LStrip(s) == IF Len(s) > 0 /\ IsSpace(SubSeq(s, 1, 1)) THEN LStrip(SubSeq(s, 2, Len(s))) ELSE s

RECURSIVE RStrip(_)
RStrip(s) == IF Len(s) > 0 /\ IsSpace(SubSeq(s, Len(s), Len(s))) THEN RStrip(SubSeq(s, 1, Len(s) - 1)) ELSE s

\* str.strip()
Strip(s) == RStrip(LStrip(s))

\* str.startswith(prefix)
StartsWith(s, prefix) == Len(s) >= Len(prefix) /\ SubSeq(s, 1, Len(prefix)) = prefix

\* the Python test `needle in s` / String.prototype.includes
Contains(s, needle) == \E i \in 1..(Len(s) - Len(needle) + 1) : SubSeq(s, i, i + Len(needle) - 1) = needle

\* str.split(sep) for a one-character separator: the list of the pieces
RECURSIVE SplitFrom(_, _, _)
SplitFrom(s, sep, cur) ==
    IF Len(s) = 0 THEN <<cur>>
    ELSE IF SubSeq(s, 1, 1) = sep THEN <<cur>> \o SplitFrom(SubSeq(s, 2, Len(s)), sep, "")
    ELSE SplitFrom(SubSeq(s, 2, Len(s)), sep, cur \o SubSeq(s, 1, 1))

Split(s, sep) == SplitFrom(s, sep, "")

IsDigit(c) == c \in {"0", "1", "2", "3", "4", "5", "6", "7", "8", "9"}

DigitVal(c) ==
    CASE c = "0" -> 0 [] c = "1" -> 1 [] c = "2" -> 2 [] c = "3" -> 3 [] c = "4" -> 4
      [] c = "5" -> 5 [] c = "6" -> 6 [] c = "7" -> 7 [] c = "8" -> 8 [] c = "9" -> 9

AllDigits(s) == Len(s) > 0 /\ \A i \in 1..Len(s) : IsDigit(SubSeq(s, i, i))

RECURSIVE DigitsVal(_)
DigitsVal(s) == IF Len(s) = 0 THEN 0 ELSE 10 * DigitsVal(SubSeq(s, 1, Len(s) - 1)) + DigitVal(SubSeq(s, Len(s), Len(s)))

\* Python int(text): surrounding whitespace is ignored, the rest must be
\* decimal digits; anything else raises ValueError (ok = FALSE).
PyInt(s) ==
    LET t == Strip(s)
    IN  IF AllDigits(t) THEN [ok |-> TRUE, n |-> DigitsVal(t)] ELSE [ok |-> FALSE, n |-> 0]

\* the longest prefix of s made of digits
RECURSIVE DigitPrefix(_)
DigitPrefix(s) ==
    IF Len(s) > 0 /\ IsDigit(SubSeq(s, 1, 1)) THEN SubSeq(s, 1, 1) \o DigitPrefix(SubSeq(s, 2, Len(s))) ELSE ""

\* JavaScript parseInt(text, 10): leading whitespace is skipped and the
\* leading digits are read; NaN (ok = FALSE) when there are none.
JsParseInt(s) ==
    LET p == DigitPrefix(LStrip(s))
    IN  IF Len(p) > 0 THEN [ok |-> TRUE, n |-> DigitsVal(p)] ELSE [ok |-> FALSE, n |-> 0]

\* str(n).zfill(2) / String(n).padStart(2, '0') for n >= 0
ZFill2(n) == IF n < 10 THEN "0" \o ToString(n) ELSE ToString(n)

(***************************************************************************)
(* Column Namer                                                            *)
(***************************************************************************)

NameError == [ok |-> FALSE, label |-> ""]

\* a namer that gives every year its suffix
YearLabelAlwaysSuffixed(year, month, day) ==
    IF year = 2025 \/ year = 25 THEN "Net RTR " \o ToString(month) \o "/" \o ToString(day) \o "/25"
    ELSE "Net RTR " \o ToString(month) \o "/" \o ToString(day) \o "/" \o ZFill2(year)

\* the year-suffix policy shared by both namers
YearLabel(year, month, day) ==
    IF year = 2025 \/ year = 25 THEN "Net RTR " \o ToString(month) \o "/" \o ToString(day) \o "/25"
    ELSE IF year > 2000 THEN "Net RTR " \o ToString(month) \o "/" \o ToString(day)
    ELSE "Net RTR " \o ToString(month) \o "/" \o ToString(day) \o "/" \o ZFill2(year)

\* the label for the three parsed numbers; an error when one did not parse
LabelOf(y, m, d) ==
    IF y.ok /\ m.ok /\ d.ok THEN [ok |-> TRUE, label |-> YearLabel(y.n, m.n, d.n)] ELSE NameError

\* the year-month-day and month-day-year readings of a split date (Python)
PyLabelYMD(parts) == IF Len(parts) < 3 THEN NameError ELSE LabelOf(PyInt(parts[1]), PyInt(parts[2]), PyInt(parts[3]))
PyLabelMDY(parts) == IF Len(parts) < 3 THEN NameError ELSE LabelOf(PyInt(parts[3]), PyInt(parts[1]), PyInt(parts[2]))

\* generate_net_rtr_column of the Python script
generate_net_rtr_column(date_str) ==
    IF Contains(date_str, "-") THEN PyLabelYMD(Split(date_str, "-"))
    ELSE IF Contains(date_str, "/") THEN PyLabelMDY(Split(date_str, "/"))
    ELSE NameError

\* the same two readings in ExcelService, which wants exactly three parts
JsLabelYMD(parts) ==
    IF Len(parts) # 3 THEN NameError ELSE LabelOf(JsParseInt(parts[1]), JsParseInt(parts[2]), JsParseInt(parts[3]))
JsLabelMDY(parts) ==
    IF Len(parts) # 3 THEN NameError ELSE LabelOf(JsParseInt(parts[3]), JsParseInt(parts[1]), JsParseInt(parts[2]))

\* ExcelService.generateNetRtrColumnName
generateNetRtrColumnName(reportDate) ==
    IF Contains(reportDate, "-") THEN JsLabelYMD(Split(reportDate, "-"))
    ELSE IF Contains(reportDate, "/") THEN JsLabelMDY(Split(reportDate, "/"))
    ELSE NameError

(***************************************************************************)
(* Workbook: sheet name -> sheet; a sheet holds the cells that exist (as   *)
(* openpyxl's ws._cells does) and the column widths that were set.  Row 1  *)
(* is a banner, row 2 the header row, data starts at row 3.                *)
(***************************************************************************)

None == [t |-> "none", s |-> "", n |-> 0]
StrVal(x) == [t |-> "str", s |-> x, n |-> 0]
NumVal(x) == [t |-> "num", s |-> "", n |-> x]

\* Python truthiness of a cell value: None, "" and 0 are false
Truthy(v) == CASE v.t = "none" -> FALSE [] v.t = "str" -> v.s # "" [] v.t = "num" -> v.n # 0

\* str(cell.value)
PyStr(v) == CASE v.t = "none" -> "None" [] v.t = "str" -> v.s [] v.t = "num" -> ToString(v.n)

EmptyCell ==
    [value |-> None, number_format |-> "General", font |-> "default", fill |-> "default",
     border |-> "default", alignment |-> "default"]

\* ws.cell(row, column) read: a cell that does not exist reads as empty
CellAt(ws, r, c) == IF <<r, c>> \in DOMAIN ws.cells THEN ws.cells[<<r, c>>] ELSE EmptyCell

PutCell(ws, r, c, cell) ==
    [ws EXCEPT !.cells = [p \in (DOMAIN ws.cells) \cup {<<r, c>>} |-> IF p = <<r, c>> THEN cell ELSE ws.cells[p]]]

MaxOf(S, dflt) == IF S = {} THEN dflt ELSE CHOOSE x \in S : \A y \in S : y <= x

\* ws.max_row / ws.max_column (1 for an empty sheet)
max_row(ws) == MaxOf({p[1] : p \in DOMAIN ws.cells}, 1)
max_column(ws) == MaxOf({p[2] : p \in DOMAIN ws.cells}, 1)

Min2(a, b) == IF a < b THEN a ELSE b
Max2(a, b) == IF a > b THEN a ELSE b

header_row == 2

(***************************************************************************)
(* The Python patch script, one funder pass.                               *)
(***************************************************************************)

\* a lookup that keeps the "Totals" row
net_amount_map_with_totals(pivot_data) ==
    LET ids == {pivot_data[i].advance_id : i \in 1..Len(pivot_data)}
    IN  [id \in ids |-> pivot_data[MaxOf({i \in 1..Len(pivot_data) : pivot_data[i].advance_id = id}, 0)].net_amount]

\* net_amount_map: advance id -> net amount, the "Totals" row left out,
\* a later pivot row with the same id replacing an earlier one
net_amount_map(pivot_data) ==
    LET ids == {pivot_data[i].advance_id : i \in 1..Len(pivot_data)} \ {"Totals"}
    IN  [id \in ids |-> pivot_data[MaxOf({i \in 1..Len(pivot_data) : pivot_data[i].advance_id = id}, 0)].net_amount]

\* the header scan of row 2: existing Net RTR columns, the last of them,
\* the last column with a header text and the column of the target label
RECURSIVE ScanHeaders(_, _, _, _)
ScanHeaders(ws, net_rtr_column, col, acc) ==
    IF col > max_column(ws) THEN acc
    ELSE LET cell == CellAt(ws, header_row, col)
             cell_value_str == Strip(PyStr(cell.value))
             isNet == Truthy(cell.value) /\ StartsWith(cell_value_str, "Net RTR")
             acc2 == [net_rtr_columns |-> IF isNet THEN Append(acc.net_rtr_columns, <<col, cell_value_str>>)
                                          ELSE acc.net_rtr_columns,
                      last_net_rtr_col |-> IF isNet THEN Max2(acc.last_net_rtr_col, col) ELSE acc.last_net_rtr_col,
                      last_data_col |-> IF Truthy(cell.value) /\ cell_value_str # "" THEN col ELSE acc.last_data_col,
                      net_rtr_col |-> IF isNet /\ cell_value_str = net_rtr_column THEN col ELSE acc.net_rtr_col]
         IN  ScanHeaders(ws, net_rtr_column, col + 1, acc2)

ScanStart == [net_rtr_columns |-> <<>>, last_net_rtr_col |-> 0, last_data_col |-> 1, net_rtr_col |-> 0]

\* datetime: calendar helpers
IsLeap(y) == (y % 4 = 0 /\ y % 100 # 0) \/ y % 400 = 0
DaysInMonth(y, m) ==
    IF m = 2 THEN (IF IsLeap(y) THEN 29 ELSE 28)
    ELSE IF m \in {4, 6, 9, 11} THEN 30 ELSE 31
\* datetime(y, m, d) raises ValueError unless the date exists
ValidDate(y, m, d) == y >= 1 /\ y <= 9999 /\ m >= 1 /\ m <= 12 /\ d >= 1 /\ d <= DaysInMonth(y, m)

RECURSIVE DaysBeforeMonth(_, _)
DaysBeforeMonth(y, m) == IF m <= 1 THEN 0 ELSE DaysBeforeMonth(y, m - 1) + DaysInMonth(y, m - 1)
DaysBeforeYear(y) == (y - 1) * 365 + ((y - 1) \div 4) - ((y - 1) \div 100) + ((y - 1) \div 400)
\* date.toordinal(): 0001-01-01 is day 1
ToOrdinal(y, m, d) == DaysBeforeYear(y) + DaysBeforeMonth(y, m) + d
\* date.fromordinal(n) for a day at most one year before year y
FromOrdinal(n, y) ==
    LET yy == IF n > DaysBeforeYear(y) THEN y ELSE y - 1
        rest == n - DaysBeforeYear(yy)
        mm == CHOOSE m \in 1..12 : DaysBeforeMonth(yy, m) < rest /\ rest <= DaysBeforeMonth(yy, m) + DaysInMonth(yy, m)
    IN  [year |-> yy, month |-> mm, day |-> rest - DaysBeforeMonth(yy, mm)]

\* the first column of net_rtr_columns (in list order) whose text is name, or 0
RECURSIVE FindColumn(_, _, _)
FindColumn(net_rtr_columns, name, i) ==
    IF i > Len(net_rtr_columns) THEN 0
    ELSE IF net_rtr_columns[i][2] = name THEN net_rtr_columns[i][1]
    ELSE FindColumn(net_rtr_columns, name, i + 1)

\* "Net RTR M/D/25" for the date of an ordinal
PrevColName(previous_friday) ==
    "Net RTR " \o ToString(previous_friday.month) \o "/" \o ToString(previous_friday.day) \o "/25"

\* the search for a previous Friday's column, 1 to 4 weeks back, from the
\* ordinal of the report date: the column after the first one found, 0 when
\* none is found, -1 when the subtraction leaves the range of datetime
RECURSIVE PreviousFriday(_, _, _, _)
PreviousFriday(net_rtr_columns, ordinal, y, weeks_back) ==
    IF weeks_back >= 5 THEN 0
    ELSE IF ordinal - 7 * weeks_back < 1 THEN -1
    ELSE IF FindColumn(net_rtr_columns, PrevColName(FromOrdinal(ordinal - 7 * weeks_back, y)), 1) # 0
        THEN FindColumn(net_rtr_columns, PrevColName(FromOrdinal(ordinal - 7 * weeks_back, y)), 1) + 1
    ELSE PreviousFriday(net_rtr_columns, ordinal, y, weeks_back + 1)

Raised == [ok |-> FALSE, col |-> 0, mode |-> "raised"]

\* the column after a previous Friday's column if there is one, else after
\* the last Net RTR column, else after the last header; after_prev is the
\* result of the search, 0 when the date is not in year-month-day form
ChooseColumn(scan, after_prev) ==
    IF after_prev = -1 THEN Raised
    ELSE IF after_prev # 0 THEN [ok |-> TRUE, col |-> after_prev, mode |-> "InsertAfterPrior"]
    ELSE IF scan.last_net_rtr_col > 0
        THEN [ok |-> TRUE, col |-> scan.last_net_rtr_col + 1, mode |-> "AppendAfterFamily"]
    ELSE [ok |-> TRUE, col |-> scan.last_data_col + 1, mode |-> "AppendAfterData"]

\* datetime(y, m, d) of the three parts, then the search
PlaceByDate(scan, y, m, d) ==
    IF ~(y.ok /\ m.ok /\ d.ok) THEN Raised
    ELSE IF ~ValidDate(y.n, m.n, d.n) THEN Raised
    ELSE ChooseColumn(scan, PreviousFriday(scan.net_rtr_columns, ToOrdinal(y.n, m.n, d.n), y.n, 1))

PlaceByParts(scan, date_parts) ==
    IF Len(date_parts) = 3
    THEN PlaceByDate(scan, PyInt(date_parts[1]), PyInt(date_parts[2]), PyInt(date_parts[3]))
    ELSE ChooseColumn(scan, 0)

\* the column for a label that is not in row 2 yet; ok = FALSE when
\* datetime() or the subtraction raises
PlaceNewColumn(scan, report_date) == PlaceByParts(scan, Split(report_date, "-"))

\* a Replace that clears nothing
ClearColumnKeeps(ws, col) == ws

\* Replace mode: every value of the column below row 2 is cleared
ClearColumn(ws, col) ==
    [ws EXCEPT !.cells = [p \in DOMAIN ws.cells |->
        IF p[2] = col /\ p[1] >= 3 /\ p[1] <= max_row(ws) THEN [ws.cells[p] EXCEPT !.value = None]
        ELSE ws.cells[p]]]

\* a header write that sets the text and copies no style
NewHeaderUnstyled(old, prev_header, col, net_rtr_column) == [old EXCEPT !.value = StrVal(net_rtr_column)]

\* the new header cell: the text is set, and font, fill, border and
\* alignment are copied from the header to its left
NewHeader(old, prev_header, col, net_rtr_column) ==
    IF col > 1
    THEN [old EXCEPT !.value = StrVal(net_rtr_column), !.font = prev_header.font, !.fill = prev_header.fill,
                     !.border = prev_header.border, !.alignment = prev_header.alignment]
    ELSE [old EXCEPT !.value = StrVal(net_rtr_column)]

\* a header write that makes room by moving the header it finds one column on
WriteHeaderShifting(ws, col, net_rtr_column) ==
    PutCell(PutCell(ws, header_row, col + 1, CellAt(ws, header_row, col)), header_row, col,
            NewHeader(CellAt(ws, header_row, col), CellAt(ws, header_row, col - 1), col, net_rtr_column))

WriteHeader(ws, col, net_rtr_column) ==
    PutCell(ws, header_row, col, NewHeader(CellAt(ws, header_row, col), CellAt(ws, header_row, col - 1), col, net_rtr_column))

DefaultKeyColumn == 5
KeySearchLimit == 20
RowLimit == 1000
MinRefColumn == 7

\* a key column that is always the first column
funder_advance_col_first(ws) == 1

\* the column whose row-2 header contains "Funder Advance ID" (the first of
\* the columns searched), else column 5
funder_advance_col(ws) ==
    LET found == {col \in 1..(Min2(max_column(ws) + 1, KeySearchLimit) - 1) :
                     LET v == CellAt(ws, header_row, col).value
                     IN  Truthy(v) /\ Contains(PyStr(v), "Funder Advance ID")}
    IN  IF found = {} THEN DefaultKeyColumn ELSE CHOOSE c \in found : \A o \in found : c <= o

\* row matching on the key as it stands in the cell
MatchedRowsRaw(ws, key_col, amounts) ==
    {row_idx \in 3..(Min2(max_row(ws) + 1, RowLimit) - 1) :
        LET v == CellAt(ws, row_idx, key_col).value
        IN  Truthy(v) /\ PyStr(v) \in DOMAIN amounts}

\* the data rows whose key, stripped, is in the lookup
MatchedRows(ws, key_col, amounts) ==
    {row_idx \in 3..(Min2(max_row(ws) + 1, RowLimit) - 1) :
        LET v == CellAt(ws, row_idx, key_col).value
        IN  Truthy(v) /\ Strip(PyStr(v)) \in DOMAIN amounts}

\* the cell written for a matched row: the net amount, the currency format
\* and the style of the reference cell of the row
WrittenCell(net_amount, ref_cell) ==
    [value |-> NumVal(net_amount), number_format |-> "$#,##0.00",
     font |-> ref_cell.font, fill |-> ref_cell.fill,
     border |-> ref_cell.border, alignment |-> ref_cell.alignment]

KeyOf(ws, row_idx, key_col) == Strip(PyStr(CellAt(ws, row_idx, key_col).value))

ref_col(net_rtr_col, last_data_col) == Max2(MinRefColumn, Min2(net_rtr_col - 1, last_data_col))

\* the data-row loop over the matched rows
WriteMatched(ws, rows, key_col, net_rtr_col, ref, amounts) ==
    [ws EXCEPT !.cells = [p \in (DOMAIN ws.cells) \cup {<<r, net_rtr_col>> : r \in rows} |->
        IF p[2] = net_rtr_col /\ p[1] \in rows
        THEN WrittenCell(amounts[KeyOf(ws, p[1], key_col)], CellAt(ws, p[1], ref))
        ELSE ws.cells[p]]]

WriteRows(ws, key_col, net_rtr_col, last_data_col, amounts) ==
    WriteMatched(ws, MatchedRows(ws, key_col, amounts), key_col, net_rtr_col,
                 ref_col(net_rtr_col, last_data_col), amounts)

\* ws.column_dimensions[col_letter].width = 15
SetWidth(ws, col) ==
    [ws EXCEPT !.width = [c \in (DOMAIN ws.width) \cup {col} |-> IF c = col THEN 15 ELSE ws.width[c]]]

\* a placement that never looks for the label in row 2
PlacementNeverReplaces(scan, report_date) == PlaceNewColumn(scan, report_date)

\* the target column: the column of the label when row 2 has it, else a new one
Placement(scan, report_date) ==
    IF scan.net_rtr_col # 0 THEN [ok |-> TRUE, col |-> scan.net_rtr_col, mode |-> "Replace"]
    ELSE PlaceNewColumn(scan, report_date)

PassRaised(ws) == [ok |-> FALSE, ws |-> ws, mode |-> "raised", col |-> 0, key_col |-> 0, updates_count |-> 0]

\* the rows are written with the key column found, and the width is set
FillRows(ws, key_col, amounts, last_data_col, place) ==
    [ok |-> TRUE, ws |-> SetWidth(WriteRows(ws, key_col, place.col, last_data_col, amounts), place.col),
     mode |-> place.mode, col |-> place.col, key_col |-> key_col,
     updates_count |-> Cardinality(MatchedRows(ws, key_col, amounts))]

\* the column is cleared (Replace) or gets its header (new column)
PrepareColumn(ws, place, net_rtr_column) ==
    IF place.mode = "Replace" THEN ClearColumn(ws, place.col) ELSE WriteHeader(ws, place.col, net_rtr_column)

FillColumn(ws1, amounts, last_data_col, place) ==
    FillRows(ws1, funder_advance_col(ws1), amounts, last_data_col, place)

WritePass(ws, amounts, scan, place, net_rtr_column) ==
    IF ~place.ok THEN PassRaised(ws)
    ELSE FillColumn(PrepareColumn(ws, place, net_rtr_column), amounts, scan.last_data_col, place)

PlaceAndWrite(ws, amounts, scan, report_date, net_rtr_column) ==
    WritePass(ws, amounts, scan, Placement(scan, report_date), net_rtr_column)

\* one pass of the funder loop on the funder's sheet
ProcessFunder(ws, pivot_data, report_date, net_rtr_column) ==
    PlaceAndWrite(ws, net_amount_map(pivot_data), ScanHeaders(ws, net_rtr_column, 1, ScanStart),
                  report_date, net_rtr_column)

(***************************************************************************)
(* The Python patch script as a whole: load, name, funder loop, save.      *)
(***************************************************************************)

\* workbook bytes: the two leading bytes and the sheets the container holds
Bytes(magic, sheets) == [magic |-> magic, sheets |-> sheets]

HasStyle(cell) ==
    cell.number_format # "General" \/ cell.font # "default" \/ cell.fill # "default"
        \/ cell.border # "default" \/ cell.alignment # "default"

\* wb.save: a cell with no value and no style is not written
SaveSheet(ws) ==
    LET kept == {p \in DOMAIN ws.cells : ws.cells[p].value # None \/ HasStyle(ws.cells[p])}
    IN  [ws EXCEPT !.cells = [p \in kept |-> ws.cells[p]]]

SaveWorkbook(wb) == [name \in DOMAIN wb |-> SaveSheet(wb[name])]

\* the script up to the funder loop: the ZIP header test on the input and
\* the column label; ok = FALSE when either raises
Started(workbook_array, named) ==
    IF workbook_array.magic # "PK" THEN [ok |-> FALSE, wb |-> workbook_array.sheets, net_rtr_column |-> ""]
    ELSE [ok |-> named.ok, wb |-> workbook_array.sheets, net_rtr_column |-> named.label]

ScriptStart(workbook_array, report_date) == Started(workbook_array, generate_net_rtr_column(report_date))

\* a missing sheet that ends the script
SkippedAborts(wb) ==
    [ok |-> FALSE, wb |-> wb, skipped |-> TRUE, mode |-> "skipped", col |-> 0, key_col |-> 0, updates_count |-> 0]

\* the funder's sheet is not in the workbook: `continue`
Skipped(wb) ==
    [ok |-> TRUE, wb |-> wb, skipped |-> TRUE, mode |-> "skipped", col |-> 0, key_col |-> 0, updates_count |-> 0]

\* a pass that keeps only the sheet it worked on
PassedAlone(wb, sheet_name, r) ==
    [ok |-> r.ok, wb |-> [name \in {sheet_name} |-> r.ws], skipped |-> FALSE, mode |-> r.mode, col |-> r.col,
     key_col |-> r.key_col, updates_count |-> r.updates_count]

\* the funder's sheet after its pass, in the workbook
Passed(wb, sheet_name, r) ==
    [ok |-> r.ok, wb |-> [wb EXCEPT ![sheet_name] = r.ws], skipped |-> FALSE, mode |-> r.mode, col |-> r.col,
     key_col |-> r.key_col, updates_count |-> r.updates_count]

\* one iteration of the funder loop on the workbook
FunderStep(wb, funder_pivot, report_date, net_rtr_column) ==
    IF funder_pivot.sheet_name \notin DOMAIN wb THEN Skipped(wb)
    ELSE Passed(wb, funder_pivot.sheet_name,
                ProcessFunder(wb[funder_pivot.sheet_name], funder_pivot.pivot_data, report_date, net_rtr_column))

\* the funder loop from index i on; ok = FALSE as soon as a pass raises
RECURSIVE FunderLoop(_, _, _, _, _)
LoopOn(r, pivot_tables, report_date, net_rtr_column, i) ==
    IF ~r.ok THEN [ok |-> FALSE, wb |-> r.wb]
    ELSE FunderLoop(r.wb, pivot_tables, report_date, net_rtr_column, i + 1)

FunderLoop(wb, pivot_tables, report_date, net_rtr_column, i) ==
    IF i > Len(pivot_tables) THEN [ok |-> TRUE, wb |-> wb]
    ELSE LoopOn(FunderStep(wb, pivot_tables[i], report_date, net_rtr_column), pivot_tables, report_date,
                net_rtr_column, i)

Saved(loop, out_magic) ==
    IF ~loop.ok THEN [ok |-> FALSE, updated |-> Bytes("", <<>>)]
    ELSE [ok |-> TRUE, updated |-> Bytes(out_magic, SaveWorkbook(loop.wb))]

LoopAndSave(start, pivot_tables, report_date, out_magic) ==
    IF ~start.ok THEN [ok |-> FALSE, updated |-> Bytes("", <<>>)]
    ELSE Saved(FunderLoop(start.wb, pivot_tables, report_date, start.net_rtr_column, 1), out_magic)

\* the whole script as runPythonAsync sees it: the updated bytes, or a
\* raised exception; out_magic is what the serialized bytes start with
RunScript(workbook_array, pivot_tables, report_date, out_magic) ==
    LoopAndSave(ScriptStart(workbook_array, report_date), pivot_tables, report_date, out_magic)

(***************************************************************************)
(* Inputs: workbooks, funder pivots and report dates the model draws from. *)
(***************************************************************************)

MaxFunders == 2
MaxRuns == 2
MaxCallers == 2

HeaderCell(text) == [EmptyCell EXCEPT !.value = StrVal(text), !.font = "bold", !.fill = "grey"]
DataCell(v) == [EmptyCell EXCEPT !.value = v]

\* a sheet with a banner in A1, the headers in row 2 ("" leaves the cell
\* out) and the data rows from row 3 on (None leaves the cell out)
MkSheet(headers, rows) ==
    LET hdr == {<<header_row, c>> : c \in {c \in 1..Len(headers) : headers[c] # ""}}
        dat == UNION {{<<2 + i, c>> : c \in {c \in 1..Len(rows[i]) : rows[i][c] # None}} : i \in 1..Len(rows)}
    IN  [cells |-> [p \in {<<1, 1>>} \cup hdr \cup dat |->
                      IF p[1] = 1 THEN DataCell(StrVal("Portfolio"))
                      ELSE IF p[1] = header_row THEN HeaderCell(headers[p[2]])
                      ELSE DataCell(rows[p[1] - 2][p[2]])],
         width |-> [c \in {} |-> 0]]

SheetX ==
    MkSheet(<<"Funder Advance ID", "Merchant", "Amt">>,
            <<<<StrVal("A1"), StrVal("Acme"), NumVal(100)>>,
              <<StrVal("B2 "), StrVal("Bolt"), NumVal(200)>>,
              <<StrVal("Totals"), None, NumVal(300)>>>>)

SheetY ==
    MkSheet(<<"Date", "Merchant", "Amt", "Fee", "Advance">>,
            <<<<StrVal("3/1"), StrVal("Kilo"), NumVal(10), NumVal(1), StrVal("K1")>>,
              <<StrVal("3/2"), StrVal("Lima"), NumVal(20), NumVal(2), StrVal("L2")>>>>)

SheetWeekly ==
    MkSheet(<<"Funder Advance ID", "Merchant", "Net RTR 3/7/25", "Net RTR 3/21/25">>,
            <<<<StrVal("A1"), StrVal("Acme"), NumVal(11), NumVal(12)>>,
              <<StrVal("C3"), StrVal("Cog"), NumVal(21), NumVal(22)>>>>)

SheetPlain ==
    MkSheet(<<"ID", "Name", "Amt">>,
            <<<<StrVal("A1"), StrVal("Acme"), NumVal(100)>>>>)

WbFresh == [name \in {"FunderX", "FunderY"} |-> IF name = "FunderX" THEN SheetX ELSE SheetY]
WbWeekly == [name \in {"FunderX", "FunderY"} |-> IF name = "FunderX" THEN SheetWeekly ELSE SheetY]
WbPlain == [name \in {"FunderX"} |-> SheetPlain]

Workbooks == {WbFresh, WbWeekly, WbPlain}

PivotRow(id, net) == [advance_id |-> id, net_amount |-> net]
FunderPivot(funder, sheet, rows) == [funder_name |-> funder, sheet_name |-> sheet, pivot_data |-> rows]

\* 999 is the net amount of the "Totals" row; no other pivot row and no
\* workbook cell of the inputs carries it
FunderPivots ==
    { FunderPivot("X", "FunderX", <<PivotRow("A1", 500)>>),
      FunderPivot("X", "FunderX", <<PivotRow("B2", 250), PivotRow("a1", 10), PivotRow("Z9", 40), PivotRow("Totals", 999)>>),
      FunderPivot("Y", "FunderY", <<PivotRow("K1", 60), PivotRow(" L2", 70)>>),
      FunderPivot("G", "Ghost", <<PivotRow("A1", 700)>>) }

SeqsUpTo(S, n) == UNION {[1..k -> S] : k \in 1..n}

PivotLists == SeqsUpTo(FunderPivots, MaxFunders)

Dates == {"2025-03-07", "2025-03-14", "2025-03-21", "03/14/2025", "2023-06-02", "2025-02-30", "14.03.2025"}

\* the report dates of three consecutive weeks
WeeklyDates == {"2025-03-07", "2025-03-14", "2025-03-21"}

(***************************************************************************)
(* State                                                                   *)
(***************************************************************************)

VARIABLES
    pyodideInstance,  \* module variable: 0 is null, else the engine of that bootstrap attempt
    isInitializing,   \* module variable
    initPromise,      \* module variable: 0 is null, else the promise of that bootstrap attempt
    attempts,         \* the bootstrap attempts started so far, each with its stage
    procs,            \* the callers: their position and locals
    files,            \* the writeFile calls made so far
    pyGlobals,        \* pyodide.globals: workbook_array, pivot_tables_json, report_date
    py,               \* the run of the patch script: position and Python variables
    hist,             \* the earlier script runs on the same workbook
    nm                \* a Column Namer application: the date, the namers applied and their labels

vars == <<pyodideInstance, isInitializing, initPromise, attempts, procs, files, pyGlobals, py, hist, nm>>

serviceVars == <<pyodideInstance, isInitializing, initPromise, attempts, procs, files>>

NoBytes == Bytes("", <<>>)

PyIdle ==
    [pc |-> "idle", wb |-> <<>>, funder_idx |-> 0, net_rtr_column |-> "", passes |-> <<>>,
     before |-> <<>>, updated |-> NoBytes]


NmIdle == [date |-> "", applied |-> {}, py |-> NameError, js |-> NameError]

(***************************************************************************)
(* The patch script, step by step (load and name, one funder per step,     *)
(* save), and repeated runs on the saved workbook.                         *)
(***************************************************************************)

PassSummary(fp, r) ==
    [sheet_name |-> fp.sheet_name, skipped |-> r.skipped, mode |-> r.mode, col |-> r.col,
     key_col |-> r.key_col, updates_count |-> r.updates_count]

EnterLoop(start) ==
    py' = IF start.ok
          THEN [PyIdle EXCEPT !.pc = "loop", !.wb = start.wb, !.funder_idx = 1,
                              !.net_rtr_column = start.net_rtr_column, !.before = start.wb]
          ELSE [PyIdle EXCEPT !.pc = "raised"]

\* the script starts: header test of the input bytes, load, column label
PyStart ==
    /\ py.pc = "idle"
    /\ EnterLoop(ScriptStart(pyGlobals.workbook_array, pyGlobals.report_date))
    /\ UNCHANGED <<serviceVars, pyGlobals, hist, nm>>

ThisStep == FunderStep(py.wb, pyGlobals.pivot_tables_json[py.funder_idx], pyGlobals.report_date, py.net_rtr_column)

Advance(fp, r) ==
    py' = [py EXCEPT !.funder_idx = @ + 1, !.before = py.wb, !.wb = r.wb,
                     !.passes = Append(@, PassSummary(fp, r))]

SkipOutcome(fp, r) == r.skipped /\ Advance(fp, r)
PassOutcome(fp, r) == ~r.skipped /\ r.ok /\ Advance(fp, r)
RaiseOutcome(r) == ~r.ok /\ py' = [py EXCEPT !.pc = "raised"]

\* a funder whose sheet is not in the workbook: skipped
PySkipFunder ==
    /\ py.pc = "loop"
    /\ py.funder_idx <= Len(pyGlobals.pivot_tables_json)
    /\ SkipOutcome(pyGlobals.pivot_tables_json[py.funder_idx], ThisStep)
    /\ UNCHANGED <<serviceVars, pyGlobals, hist, nm>>

\* a funder pass on the funder's sheet
PyProcessFunder ==
    /\ py.pc = "loop"
    /\ py.funder_idx <= Len(pyGlobals.pivot_tables_json)
    /\ PassOutcome(pyGlobals.pivot_tables_json[py.funder_idx], ThisStep)
    /\ UNCHANGED <<serviceVars, pyGlobals, hist, nm>>

\* a funder pass in which datetime() raises: the script ends there
PyFunderRaises ==
    /\ py.pc = "loop"
    /\ py.funder_idx <= Len(pyGlobals.pivot_tables_json)
    /\ RaiseOutcome(ThisStep)
    /\ UNCHANGED <<serviceVars, pyGlobals, hist, nm>>

\* after the last funder: wb.save to bytes
PySave ==
    /\ py.pc = "loop"
    /\ py.funder_idx > Len(pyGlobals.pivot_tables_json)
    /\ py' = [py EXCEPT !.pc = "done", !.updated = Bytes("PK", SaveWorkbook(py.wb))]
    /\ UNCHANGED <<serviceVars, pyGlobals, hist, nm>>

ThisRun ==
    [workbook_array |-> pyGlobals.workbook_array, report_date |-> pyGlobals.report_date,
     pivot_tables |-> pyGlobals.pivot_tables_json, updated |-> py.updated, passes |-> py.passes]

\* the saved workbook is patched again with the same report date and pivots
RunAgain ==
    /\ py.pc = "done"
    /\ Len(hist) + 1 < MaxRuns
    /\ hist' = Append(hist, ThisRun)
    /\ pyGlobals' = [pyGlobals EXCEPT !.workbook_array = py.updated]
    /\ py' = PyIdle
    /\ UNCHANGED <<serviceVars, nm>>

\* the saved workbook is patched for the report date of another week
RunNextDate ==
    /\ py.pc = "done"
    /\ Len(hist) + 1 < MaxRuns
    /\ \E d \in WeeklyDates \ {pyGlobals.report_date} :
          pyGlobals' = [pyGlobals EXCEPT !.workbook_array = py.updated, !.report_date = d]
    /\ hist' = Append(hist, ThisRun)
    /\ py' = PyIdle
    /\ UNCHANGED <<serviceVars, nm>>

\* caller 0 is the preload of app start-up, the others are invocations of
\* updatePortfolioWorkbookWithNetRtr
Callers == 0..MaxCallers
Updaters == 1..MaxCallers

NoPromise == [kind |-> "none", id |-> 0]

ProcIdle ==
    [pc |-> "idle", awaiting |-> NoPromise, pyodide |-> 0, reportDate |-> "", pivotTables |-> <<>>,
     fileData |-> NoBytes, updatedArray |-> NoBytes, filePath |-> "", error |-> ""]

ServiceInit ==
    /\ pyodideInstance = 0
    /\ isInitializing = FALSE
    /\ initPromise = 0
    /\ attempts = <<>>
    /\ procs = [i \in Callers |-> ProcIdle]
    /\ files = [i \in Callers |-> <<>>]

InitPatch ==
    /\ ServiceInit
    /\ pyGlobals \in [workbook_array : {Bytes("PK", w) : w \in Workbooks},
                      pivot_tables_json : PivotLists,
                      report_date : Dates]
    /\ py = PyIdle
    /\ hist = <<>>
    /\ nm = NmIdle

NextPatch ==
    \/ PyStart
    \/ PySkipFunder
    \/ PyProcessFunder
    \/ PyFunderRaises
    \/ PySave
    \/ RunAgain
    \/ RunNextDate

SpecPatch == InitPatch /\ [][NextPatch]_vars

\* a sheet continued down to the rows around the limit of the data-row
\* loop: row r has advance id `id` in the key column and an amount
WithRow(ws, r, id) == PutCell(PutCell(ws, r, 1, DataCell(StrVal(id))), r, 3, DataCell(NumVal(r)))

\* SheetX with data rows 999 and 1000 besides its rows 3 to 5
SheetLong == WithRow(WithRow(SheetX, RowLimit - 1, "B2"), RowLimit, "A1")

WbLong == [name \in {"FunderX"} |-> SheetLong]

\* a sheet whose advance ids and their header are in the column at which
\* the search for the key column stops
SheetWide ==
    PutCell(PutCell(MkSheet(<<"Merchant", "Amt">>, <<<<StrVal("Acme"), NumVal(100)>>>>),
                    header_row, KeySearchLimit, HeaderCell("Funder Advance ID")),
            3, KeySearchLimit, DataCell(StrVal("A1")))

WbWide == [name \in {"FunderX"} |-> SheetWide]

\* the script on the long and on the wide workbook
InitRows ==
    /\ ServiceInit
    /\ pyGlobals \in [workbook_array : {Bytes("PK", WbLong), Bytes("PK", WbWide)},
                      pivot_tables_json : PivotLists,
                      report_date : Dates]
    /\ py = PyIdle
    /\ hist = <<>>
    /\ nm = NmIdle

SpecRows == InitRows /\ [][NextPatch]_vars

\* report dates with the same month and day in several years, in both
\* input formats, and a date that is no day of the calendar
YearDates == {"2023-06-02", "2024-06-02", "2025-06-02", "06/02/2024", "2025-02-30"}

\* the script on a workbook without family columns, for the dates above
InitYears ==
    /\ ServiceInit
    /\ pyGlobals \in [workbook_array : {Bytes("PK", WbFresh)},
                      pivot_tables_json : PivotLists,
                      report_date : YearDates]
    /\ py = PyIdle
    /\ hist = <<>>
    /\ nm = NmIdle

\* the saved workbook is patched for another of these report dates
RunOtherYear ==
    /\ py.pc = "done"
    /\ Len(hist) + 1 < MaxRuns
    /\ \E d \in YearDates \ {pyGlobals.report_date} :
          pyGlobals' = [pyGlobals EXCEPT !.workbook_array = py.updated, !.report_date = d]
    /\ hist' = Append(hist, ThisRun)
    /\ py' = PyIdle
    /\ UNCHANGED <<serviceVars, nm>>

NextYears ==
    \/ PyStart
    \/ PySkipFunder
    \/ PyProcessFunder
    \/ PyFunderRaises
    \/ PySave
    \/ RunOtherYear

SpecYears == InitYears /\ [][NextYears]_vars

(***************************************************************************)
(* PyodideService: initialize(), the bootstrap it starts, preload() and    *)
(* updatePortfolioWorkbookWithNetRtr.  An invocation takes one step per    *)
(* await that the shared state (the module variables, the engine globals,  *)
(* the files) can change across; consecutive awaits of collaborators that  *)
(* touch none of it (the two backend invokes; downloadDir before the save  *)
(* dialog; the read-back after writeFile) are one step.                    *)
(***************************************************************************)

SvcDates == {"2025-03-14", "14.03.2025"}
SvcPivots ==
    { <<>>,
      <<FunderPivot("G", "Ghost", <<PivotRow("A1", 700)>>),
        FunderPivot("X", "FunderX", <<PivotRow("A1", 500), PivotRow("Totals", 999)>>)>> }
\* the active workbook of the portfolio an invocation is for
SvcFile(i) == IF i % 2 = 1 THEN Bytes("PK", WbPlain) ELSE Bytes("PK", WbWeekly)
SvcPaths == {"", "Downloads/Updated.xlsx"}

Pending(stage) == stage \in {"loadPyodide", "loadPackage", "install"}
InFlight == {a \in 1..Len(attempts) : Pending(attempts[a])}

\* an initialize() that does not look at the instance
InitStartsIgnoresInstance == ~(isInitializing /\ initPromise # 0)

\* an initialize() that only looks at the instance
InitStartsUnguarded == pyodideInstance = 0

\* initialize(): the call starts a bootstrap unless there is an instance or
\* an attempt to wait for
InitStarts == pyodideInstance = 0 /\ ~(isInitializing /\ initPromise # 0)

\* what initialize() returns: the instance, the stored promise or the
\* promise of the attempt it starts
InitResult ==
    IF pyodideInstance # 0 THEN [kind |-> "value", id |-> pyodideInstance]
    ELSE IF InitStarts THEN [kind |-> "promise", id |-> Len(attempts) + 1]
    ELSE [kind |-> "promise", id |-> initPromise]

\* the synchronous part of initialize(), up to the first await of the
\* bootstrap (loadPyodide has been called)
initialize ==
    /\ IF InitStarts
       THEN /\ isInitializing' = TRUE
            /\ attempts' = Append(attempts, "loadPyodide")
            /\ initPromise' = Len(attempts) + 1
       ELSE UNCHANGED <<isInitializing, attempts, initPromise>>
    /\ UNCHANGED pyodideInstance

Settled(p) == p.kind = "value" \/ (p.kind = "promise" /\ ~Pending(attempts[p.id]))
Fulfilled(p) == p.kind = "value" \/ (p.kind = "promise" /\ attempts[p.id] = "resolved")

patchVars == <<pyGlobals, py, hist, nm>>

\* preload() is called: it calls initialize() and awaits it
PreloadCall ==
    /\ procs[0].pc = "idle"
    /\ procs' = [procs EXCEPT ![0] = [@ EXCEPT !.pc = "awaitInit", !.awaiting = InitResult]]
    /\ initialize
    /\ UNCHANGED <<files, patchVars>>

\* a preload that returns without waiting for initialize()
PreloadReturnsAtOnce ==
    /\ procs[0].pc = "awaitInit"
    /\ procs' = [procs EXCEPT ![0] = [@ EXCEPT !.pc = "done"]]
    /\ UNCHANGED <<pyodideInstance, isInitializing, initPromise, attempts, files, patchVars>>

\* a preload that rethrows the error of a failed attempt
PreloadRethrows ==
    /\ procs[0].pc = "awaitInit"
    /\ Settled(procs[0].awaiting)
    /\ procs' = [procs EXCEPT ![0] = [@ EXCEPT !.pc = IF Fulfilled(procs[0].awaiting) THEN "done" ELSE "rejected",
                                        !.error = IF Fulfilled(procs[0].awaiting) THEN "" ELSE "bootstrap"]]
    /\ UNCHANGED <<pyodideInstance, isInitializing, initPromise, attempts, files, patchVars>>

\* the awaited initialize() settled: preload logs either outcome and returns
PreloadSettles ==
    /\ procs[0].pc = "awaitInit"
    /\ Settled(procs[0].awaiting)
    /\ procs' = [procs EXCEPT ![0] = [@ EXCEPT !.pc = "done",
                                        !.error = IF Fulfilled(procs[0].awaiting) THEN "" ELSE "logged"]]
    /\ UNCHANGED <<pyodideInstance, isInitializing, initPromise, attempts, files, patchVars>>

\* loadPyodide resolved: loadPackage(["micropip"]) is called
BootLoadPyodide(a) ==
    /\ a \in 1..Len(attempts)
    /\ attempts[a] = "loadPyodide"
    /\ attempts' = [attempts EXCEPT ![a] = "loadPackage"]
    /\ UNCHANGED <<pyodideInstance, isInitializing, initPromise, procs, files, patchVars>>

\* loadPackage resolved: micropip.install is called
BootLoadPackage(a) ==
    /\ a \in 1..Len(attempts)
    /\ attempts[a] = "loadPackage"
    /\ attempts' = [attempts EXCEPT ![a] = "install"]
    /\ UNCHANGED <<pyodideInstance, isInitializing, initPromise, procs, files, patchVars>>

\* a bootstrap that ends without storing the instance
BootSucceedsUnstored(a) ==
    /\ a \in 1..Len(attempts)
    /\ attempts[a] = "install"
    /\ pyodideInstance' = pyodideInstance
    /\ isInitializing' = FALSE
    /\ attempts' = [attempts EXCEPT ![a] = "resolved"]
    /\ UNCHANGED <<initPromise, procs, files, patchVars>>

\* install resolved: the instance is stored
BootSucceeds(a) ==
    /\ a \in 1..Len(attempts)
    /\ attempts[a] = "install"
    /\ pyodideInstance' = a
    /\ isInitializing' = FALSE
    /\ attempts' = [attempts EXCEPT ![a] = "resolved"]
    /\ UNCHANGED <<initPromise, procs, files, patchVars>>

\* a catch block that resets nothing
CatchKeepsState ==
    /\ isInitializing' = isInitializing
    /\ initPromise' = initPromise

\* the catch block of the bootstrap
CatchReset ==
    /\ isInitializing' = FALSE
    /\ initPromise' = 0

\* one of the three awaited steps rejected
BootFails(a) ==
    /\ a \in 1..Len(attempts)
    /\ Pending(attempts[a])
    /\ CatchReset
    /\ attempts' = [attempts EXCEPT ![a] = "rejected"]
    /\ UNCHANGED <<pyodideInstance, procs, files, patchVars>>

\* the invocation ends: its locals are gone
Ended(p, pc, why) ==
    [p EXCEPT !.pc = pc, !.error = why, !.pivotTables = <<>>, !.fileData = NoBytes, !.updatedArray = NoBytes]

Reject(i, why) == procs' = [procs EXCEPT ![i] = Ended(@, "rejected", why)]

\* updatePortfolioWorkbookWithNetRtr is called: it calls initialize()
UpdateCall(i) ==
    /\ procs[i].pc = "idle"
    /\ \E d \in SvcDates :
          procs' = [procs EXCEPT ![i] = [@ EXCEPT !.pc = "awaitInit", !.awaiting = InitResult, !.reportDate = d]]
    /\ initialize
    /\ UNCHANGED <<files, patchVars>>

\* initialize() resolved: get_active_workbook_path is invoked
UpdateInitResolved(i) ==
    /\ procs[i].pc = "awaitInit"
    /\ Settled(procs[i].awaiting)
    /\ Fulfilled(procs[i].awaiting)
    /\ procs' = [procs EXCEPT ![i] = [@ EXCEPT !.pc = "backend", !.pyodide = procs[i].awaiting.id]]
    /\ UNCHANGED <<pyodideInstance, isInitializing, initPromise, attempts, files, patchVars>>

\* initialize() rejected: the invocation rethrows
UpdateInitRejected(i) ==
    /\ procs[i].pc = "awaitInit"
    /\ Settled(procs[i].awaiting)
    /\ ~Fulfilled(procs[i].awaiting)
    /\ Reject(i, "bootstrap")
    /\ UNCHANGED <<pyodideInstance, isInitializing, initPromise, attempts, files, patchVars>>

\* the workbook path and then the pivot tables arrived: no pivot table is
\* an error, else readFile is called
BackendReturns(i) ==
    /\ procs[i].pc = "backend"
    /\ \E pt \in SvcPivots :
          IF Len(pt) = 0 THEN Reject(i, "No pivot tables found for the specified date")
          ELSE procs' = [procs EXCEPT ![i] = [@ EXCEPT !.pc = "readFile", !.pivotTables = pt]]
    /\ UNCHANGED <<pyodideInstance, isInitializing, initPromise, attempts, files, patchVars>>

\* the workbook bytes arrived: the three globals are set and
\* runPythonAsync is called
ReadFileReturns(i) ==
    /\ procs[i].pc = "readFile"
    /\ procs' = [procs EXCEPT ![i] = [@ EXCEPT !.pc = "python", !.fileData = SvcFile(i)]]
    /\ pyGlobals' = [workbook_array |-> SvcFile(i), pivot_tables_json |-> procs[i].pivotTables,
                     report_date |-> procs[i].reportDate]
    /\ UNCHANGED <<pyodideInstance, isInitializing, initPromise, attempts, files, py, hist, nm>>

Continue(i, result) ==
    IF result.ok
    THEN procs' = [procs EXCEPT ![i] = [@ EXCEPT !.pc = "saveDialog", !.updatedArray = result.updated]]
    ELSE Reject(i, "python")

\* the engine runs the script on the globals as they are now; the result
\* is decoded, its header is looked at (a warning at most), downloadDir is
\* awaited and the save dialog opens; or the exception is rethrown.  What
\* the decoded bytes start with is left open (out_magic), as the header test
\* of the code leaves it
PythonRuns(i) ==
    /\ procs[i].pc = "python"
    /\ \E out_magic \in {"PK", "XX"} :
          Continue(i, RunScript(pyGlobals.workbook_array, pyGlobals.pivot_tables_json, pyGlobals.report_date, out_magic))
    /\ UNCHANGED <<pyodideInstance, isInitializing, initPromise, attempts, files, patchVars>>

\* a save step that writes to the proposed default path when the dialog
\* was cancelled
SaveDialogWritesAnyway(i) ==
    /\ procs[i].pc = "saveDialog"
    /\ \E path \in SvcPaths :
          IF path # ""
          THEN /\ procs' = [procs EXCEPT ![i] = [@ EXCEPT !.pc = "writeFile", !.filePath = path]]
               /\ files' = [files EXCEPT ![i] = Append(@, [path |-> path, bytes |-> procs[i].updatedArray])]
          ELSE /\ Reject(i, "Save cancelled by user")
               /\ files' = [files EXCEPT ![i] = Append(@, [path |-> "Downloads/default.xlsx",
                                                           bytes |-> procs[i].updatedArray])]
    /\ UNCHANGED <<pyodideInstance, isInitializing, initPromise, attempts, patchVars>>

\* the dialog closed: with a path writeFile is called, without one the
\* invocation throws "Save cancelled by user"
SaveDialogReturns(i) ==
    /\ procs[i].pc = "saveDialog"
    /\ \E path \in SvcPaths :
          IF path # ""
          THEN /\ procs' = [procs EXCEPT ![i] = [@ EXCEPT !.pc = "writeFile", !.filePath = path]]
               /\ files' = [files EXCEPT ![i] = Append(@, [path |-> path, bytes |-> procs[i].updatedArray])]
          ELSE /\ Reject(i, "Save cancelled by user")
               /\ UNCHANGED files
    /\ UNCHANGED <<pyodideInstance, isInitializing, initPromise, attempts, patchVars>>

\* writeFile resolved: the file is read back (a failure there is only
\* logged) and the invocation resolves
WriteFileReturns(i) ==
    /\ procs[i].pc = "writeFile"
    /\ procs' = [procs EXCEPT ![i] = Ended(@, "done", "")]
    /\ UNCHANGED <<pyodideInstance, isInitializing, initPromise, attempts, files, patchVars>>

\* an awaited collaborator (invoke, readFile, downloadDir, save, writeFile) rejects
CollaboratorFails(i) ==
    /\ procs[i].pc \in {"backend", "readFile", "saveDialog", "writeFile"}
    /\ Reject(i, "collaborator")
    /\ UNCHANGED <<pyodideInstance, isInitializing, initPromise, attempts, files, patchVars>>

Init ==
    /\ ServiceInit
    /\ pyGlobals = [workbook_array |-> NoBytes, pivot_tables_json |-> <<>>, report_date |-> ""]
    /\ py = PyIdle
    /\ hist = <<>>
    /\ nm = NmIdle

Next ==
    \/ PreloadCall
    \/ PreloadSettles
    \/ \E a \in 1..(MaxCallers + 1) : BootLoadPyodide(a)
    \/ \E a \in 1..(MaxCallers + 1) : BootLoadPackage(a)
    \/ \E a \in 1..(MaxCallers + 1) : BootSucceeds(a)
    \/ \E a \in 1..(MaxCallers + 1) : BootFails(a)
    \/ \E i \in Updaters : UpdateCall(i)
    \/ \E i \in Updaters : UpdateInitResolved(i)
    \/ \E i \in Updaters : UpdateInitRejected(i)
    \/ \E i \in Updaters : BackendReturns(i)
    \/ \E i \in Updaters : ReadFileReturns(i)
    \/ \E i \in Updaters : PythonRuns(i)
    \/ \E i \in Updaters : SaveDialogReturns(i)
    \/ \E i \in Updaters : WriteFileReturns(i)
    \/ \E i \in Updaters : CollaboratorFails(i)

Spec == Init /\ [][Next]_vars

\* the provisioner alone: every caller calls initialize() and waits for it
\* (what an invocation does after that touches none of the provisioner's
\* variables)
NextInit ==
    \/ PreloadCall
    \/ PreloadSettles
    \/ \E a \in 1..(MaxCallers + 1) : BootLoadPyodide(a)
    \/ \E a \in 1..(MaxCallers + 1) : BootLoadPackage(a)
    \/ \E a \in 1..(MaxCallers + 1) : BootSucceeds(a)
    \/ \E a \in 1..(MaxCallers + 1) : BootFails(a)
    \/ \E i \in Updaters : UpdateCall(i)
    \/ \E i \in Updaters : UpdateInitResolved(i)
    \/ \E i \in Updaters : UpdateInitRejected(i)

SpecInit == Init /\ [][NextInit]_vars

\* an awaited step of a bootstrap attempt settles
BootStep(a) == BootLoadPyodide(a) \/ BootLoadPackage(a) \/ BootSucceeds(a) \/ BootFails(a)

\* the continuation of an update invocation waiting for initialize()
UpdateInitSettles(i) == UpdateInitResolved(i) \/ UpdateInitRejected(i)

\* loadPyodide, loadPackage and install settle in the end, and the event
\* loop runs the continuation of a settled promise
FairInit ==
    /\ \A a \in 1..(MaxCallers + 1) : WF_vars(BootStep(a))
    /\ WF_vars(PreloadSettles)
    /\ \A i \in Updaters : WF_vars(UpdateInitSettles(i))

SpecInitLive == Init /\ [][NextInit]_vars /\ FairInit

\* the update invocations alone, from the state in which the preload of
\* app start-up has succeeded: the engine of attempt 1 is stored
InitReady ==
    /\ pyodideInstance = 1
    /\ isInitializing = FALSE
    /\ initPromise = 1
    /\ attempts = <<"resolved">>
    /\ procs = [i \in Callers |->
                  IF i = 0 THEN [ProcIdle EXCEPT !.pc = "done", !.awaiting = [kind |-> "promise", id |-> 1]]
                  ELSE ProcIdle]
    /\ files = [i \in Callers |-> <<>>]
    /\ pyGlobals = [workbook_array |-> NoBytes, pivot_tables_json |-> <<>>, report_date |-> ""]
    /\ py = PyIdle
    /\ hist = <<>>
    /\ nm = NmIdle

NextReady ==
    \/ \E i \in Updaters : UpdateCall(i)
    \/ \E i \in Updaters : UpdateInitResolved(i)
    \/ \E i \in Updaters : BackendReturns(i)
    \/ \E i \in Updaters : ReadFileReturns(i)
    \/ \E i \in Updaters : PythonRuns(i)
    \/ \E i \in Updaters : SaveDialogReturns(i)
    \/ \E i \in Updaters : WriteFileReturns(i)
    \/ \E i \in Updaters : CollaboratorFails(i)

SpecReady == InitReady /\ [][NextReady]_vars

(***************************************************************************)
(* The Column Namer on its own: a report date is drawn and the two namers  *)
(* (the Python script's and ExcelService's) are applied to it.             *)
(***************************************************************************)

NamerYears == {"5", "24", "25", "99", "1999", "2000", "2001", "2023", "2025", "2026"}
NamerMonths == {"1", "01", "06", "12"}
NamerDays == {"2", "02", "17"}

NamerDates ==
    {y \o "-" \o m \o "-" \o d : y \in NamerYears, m \in NamerMonths, d \in NamerDays}
        \cup {m \o "/" \o d \o "/" \o y : y \in NamerYears, m \in NamerMonths, d \in NamerDays}
        \cup {"", "garbage", "14.03.2025", "2025-01", "1/17", "2025-01-17-9", "2025-01-17T00:00", "20x5-01-17",
              "1/17/2025/9", " 2025-01-17 "}

InitNamer ==
    /\ ServiceInit
    /\ pyGlobals = [workbook_array |-> NoBytes, pivot_tables_json |-> <<>>, report_date |-> ""]
    /\ py = PyIdle
    /\ hist = <<>>
    /\ nm \in {[NmIdle EXCEPT !.date = d] : d \in NamerDates}

\* generate_net_rtr_column(report_date) of the script
NamePy ==
    /\ "py" \notin nm.applied
    /\ nm' = [nm EXCEPT !.applied = @ \cup {"py"}, !.py = generate_net_rtr_column(nm.date)]
    /\ UNCHANGED <<serviceVars, pyGlobals, py, hist>>

\* ExcelService.generateNetRtrColumnName(reportDate)
NameJs ==
    /\ "js" \notin nm.applied
    /\ nm' = [nm EXCEPT !.applied = @ \cup {"js"}, !.js = generateNetRtrColumnName(nm.date)]
    /\ UNCHANGED <<serviceVars, pyGlobals, py, hist>>

NextNamer ==
    \/ NamePy
    \/ NameJs

SpecNamer == InitNamer /\ [][NextNamer]_vars

(***************************************************************************)
(* Properties of the Runtime Provisioner (under SpecInit, and Spec)         *)
(***************************************************************************)

\* a caller's step from idle into its await of initialize()
Calls(i) == procs[i].pc = "idle" /\ procs'[i].pc = "awaitInit"

JoinsInFlight ==
    \A i \in Callers :
        (Calls(i) /\ InFlight # {})
            => /\ attempts' = attempts
               /\ procs'[i].awaiting.kind = "promise"
               /\ procs'[i].awaiting.id \in InFlight

\* C1: single-flight.  In every interleaving of the initialize() calls of
\* preload and of the update invocations, retries after a failure included,
\* at most one bootstrap attempt is in flight at any time, and a call made
\* while an attempt is in flight starts no attempt and receives the promise
\* of the attempt in flight.
C1_SingleFlight == [](Cardinality(InFlight) <= 1) /\ [][JoinsInFlight]_vars

\* two callers wait on the same attempt, which is in flight and is the
\* retry after a failed first attempt
C1_Witness ==
    \E i \in Callers : \E j \in Callers \ {i} :
        /\ procs[i].pc = "awaitInit"
        /\ procs[j].pc = "awaitInit"
        /\ procs[i].awaiting = [kind |-> "promise", id |-> 2]
        /\ procs[j].awaiting = [kind |-> "promise", id |-> 2]
        /\ Len(attempts) = 2
        /\ attempts[1] = "rejected"
        /\ Pending(attempts[2])

Rejections == {a \in 1..Len(attempts) : attempts[a] = "rejected"}

\* C2: every invocation whose initialize() resolved holds the one engine
\* instance of the module, and bootstraps are started once only: the number
\* of attempts (each one loadPyodide and one package install) never exceeds
\* the number of failed attempts plus one, so it is exactly 1 when the
\* bootstrap succeeds first time, whatever the number of callers and the
\* interleaving of their calls.
C2_OneEngineOneBootstrap ==
    /\ \A i \in Updaters : procs[i].pyodide # 0 => procs[i].pyodide = pyodideInstance
    /\ pyodideInstance # 0 => attempts[pyodideInstance] = "resolved"
    /\ Len(attempts) <= 1 + Cardinality(Rejections)

\* every update invocation called initialize() while the one bootstrap was
\* in flight, all of them hold its engine, and preload has returned
C2_Witness ==
    /\ Len(attempts) = 1
    /\ pyodideInstance = 1
    /\ procs[0].pc = "done"
    /\ \A i \in Updaters : procs[i].awaiting = [kind |-> "promise", id |-> 1] /\ procs[i].pyodide = 1

FailureResets ==
    (\E a \in 1..Len(attempts) : Pending(attempts[a]) /\ attempts'[a] = "rejected")
        => (pyodideInstance' = 0 /\ isInitializing' = FALSE /\ initPromise' = 0)

RetryStartsFresh ==
    \A i \in Callers :
        (Calls(i) /\ pyodideInstance = 0 /\ InFlight = {})
            => /\ Len(attempts') = Len(attempts) + 1
               /\ attempts'[Len(attempts')] = "loadPyodide"
               /\ procs'[i].awaiting = [kind |-> "promise", id |-> Len(attempts')]
               /\ isInitializing' = TRUE

\* C3: the step in which a bootstrap attempt fails leaves the provisioner
\* Uninitialized (no instance, isInitializing false, no stored promise), and
\* a call to initialize() made when there is no instance and no attempt in
\* flight (so also after a failure) starts a new attempt and waits on it.
C3_FailureResetsForRetry == [][FailureResets /\ RetryStartsFresh]_vars

\* a first attempt failed and a later caller waits on the second attempt
C3_Witness ==
    /\ Len(attempts) >= 2
    /\ attempts[1] = "rejected"
    /\ Pending(attempts[2])
    /\ pyodideInstance = 0
    /\ isInitializing = TRUE
    /\ initPromise = 2
    /\ \E i \in Callers : procs[i].pc = "awaitInit" /\ procs[i].awaiting = [kind |-> "promise", id |-> 2]

(***************************************************************************)
(* Properties of an update invocation (under Spec)                         *)
(***************************************************************************)

\* C5: bytes that do not start with the ZIP magic "PK" are never handed to
\* writeFile; an invocation whose script output lacks the magic does not
\* reach the save dialog.
C5_NoSaveWithoutZipMagic ==
    \A i \in Updaters :
        /\ \A k \in 1..Len(files[i]) : files[i][k].bytes.magic = "PK"
        /\ procs[i].pc \in {"saveDialog", "writeFile"} => procs[i].updatedArray.magic = "PK"

BootstrapFailedFor(i) ==
    /\ procs[i].awaiting.kind = "promise"
    /\ attempts[procs[i].awaiting.id] = "rejected"

Unparseable(report_date) == ~generate_net_rtr_column(report_date).ok

\* C6: an invocation whose report date cannot be parsed, or whose
\* initialize() was rejected, never reaches the save dialog, never calls
\* writeFile and never resolves.
C6_BadDateOrBootstrapAborts ==
    \A i \in Updaters :
        (procs[i].pc # "idle" /\ (Unparseable(procs[i].reportDate) \/ BootstrapFailedFor(i)))
            => /\ files[i] = <<>>
               /\ procs[i].pc \notin {"saveDialog", "writeFile", "done"}

(***************************************************************************)
(* Properties of the patch script (under SpecPatch)                        *)
(***************************************************************************)

LastRun == hist[Len(hist)]

\* C4: idempotence.  When the script has been run again on the workbook it
\* saved, with the same report date and the same pivot tables, the workbook
\* it saves is the one it was given.
C4_SecondRunChangesNothing ==
    (/\ py.pc = "done"
     /\ Len(hist) > 0
     /\ LastRun.report_date = pyGlobals.report_date
     /\ LastRun.pivot_tables = pyGlobals.pivot_tables_json)
        => py.updated = LastRun.updated

SheetPresent(fp) == fp.sheet_name \in DOMAIN pyGlobals.workbook_array.sheets
PresentOnly(pivot_tables) == SelectSeq(pivot_tables, SheetPresent)

\* the report date alone makes the script raise: the namer rejects it, or
\* datetime() does
DateRaises(report_date) == Unparseable(report_date) \/ ~PlaceNewColumn(ScanStart, report_date).ok

LastPass == py.passes[Len(py.passes)]
LastPivot == pyGlobals.pivot_tables_json[Len(py.passes)]

\* C7: per-funder recoverable conditions never abort the batch.  A funder
\* is skipped exactly when its sheet is absent, and the skip changes no
\* sheet; the script raises only when the report date itself makes it raise
\* (never for an absent sheet or for zero matching rows); a run that ends
\* has passed over every funder of the list and saved, and what it saves is
\* what the run without the skipped funders saves.
C7_RecoverableNeverAborts ==
    /\ py.pc \in {"loop", "done"} =>
          /\ \A k \in 1..Len(py.passes) :
                py.passes[k].skipped <=> (pyGlobals.pivot_tables_json[k].sheet_name \notin DOMAIN py.wb)
          /\ (Len(py.passes) > 0 /\ LastPass.skipped) => py.wb = py.before
    /\ py.pc = "done" =>
          /\ Len(py.passes) = Len(pyGlobals.pivot_tables_json)
          /\ py.updated = RunScript(pyGlobals.workbook_array, PresentOnly(pyGlobals.pivot_tables_json),
                                    pyGlobals.report_date, "PK").updated
    /\ py.pc = "raised" => DateRaises(pyGlobals.report_date)

\* a run that skipped its first funder, wrote rows for its second and saved
C7_Witness ==
    /\ py.pc = "done"
    /\ Len(py.passes) = 2
    /\ py.passes[1].skipped
    /\ ~py.passes[2].skipped
    /\ py.passes[2].updates_count > 0
    /\ py.updated.magic = "PK"

TotalsAmounts(pivot_tables) ==
    UNION {{NumVal(pivot_tables[k].pivot_data[j].net_amount) :
               j \in {j \in 1..Len(pivot_tables[k].pivot_data) : pivot_tables[k].pivot_data[j].advance_id = "Totals"}} :
           k \in 1..Len(pivot_tables)}

\* C8: the net amount of a pivot row whose advance_id is "Totals" is in no
\* cell of any sheet, also when a data row's key cell reads "Totals".
C8_TotalsNeverWritten ==
    \A name \in DOMAIN py.wb : \A p \in DOMAIN py.wb[name].cells :
        py.wb[name].cells[p].value \notin TotalsAmounts(pyGlobals.pivot_tables_json)

\* a pass wrote rows from a pivot that has a "Totals" row, on a sheet that
\* has a data row whose key cell reads "Totals"
C8_Witness ==
    /\ py.pc \in {"loop", "done"}
    /\ \E k \in 1..Len(py.passes) :
          /\ ~py.passes[k].skipped
          /\ py.passes[k].updates_count > 0
          /\ TotalsAmounts(<<pyGlobals.pivot_tables_json[k]>>) # {}
          /\ \E r \in 3..max_row(py.wb[py.passes[k].sheet_name]) :
                CellAt(py.wb[py.passes[k].sheet_name], r, py.passes[k].key_col).value = StrVal("Totals")

PivotIds(pivot_data) == {pivot_data[j].advance_id : j \in 1..Len(pivot_data)} \ {"Totals"}
AmountsFor(pivot_data, id) ==
    {NumVal(pivot_data[j].net_amount) : j \in {j \in 1..Len(pivot_data) : pivot_data[j].advance_id = id}}

\* row r across a pass: with key (the text compared with the advance ids)
\* among the ids the target cell holds that id's amount, else it holds
\* what it held (nothing, in Replace mode)
RowAsMatched(before, after, pass, pivot_data, r, key) ==
    IF Truthy(CellAt(before, r, pass.key_col).value) /\ key \in PivotIds(pivot_data)
    THEN CellAt(after, r, pass.col).value \in AmountsFor(pivot_data, key)
    ELSE CellAt(after, r, pass.col).value =
            IF pass.mode = "Replace" THEN None ELSE CellAt(before, r, pass.col).value

RowsAsMatched(before, after, pass, pivot_data, stripped) ==
    \A r \in 3..max_row(before) :
        RowAsMatched(before, after, pass, pivot_data, r,
                     IF stripped THEN Strip(PyStr(CellAt(before, r, pass.key_col).value))
                     ELSE PyStr(CellAt(before, r, pass.key_col).value))

PassDone == py.pc \in {"loop", "done"} /\ Len(py.passes) > 0 /\ ~LastPass.skipped /\ LastPass.key_col # LastPass.col

\* C9 as stated: a row is written exactly when the text of its advance-id
\* cell, as it stands, equals a pivot row's advance_id.
C9_RawKeyExactMatch ==
    PassDone => RowsAsMatched(py.before[LastPass.sheet_name], py.wb[LastPass.sheet_name], LastPass,
                              LastPivot.pivot_data, FALSE)

\* C9: a row is written exactly when the text of its advance-id cell,
\* stripped of leading and trailing whitespace, equals (case-sensitively,
\* the pivot side as it stands) a pivot row's advance_id; the row then holds
\* that pivot row's net amount; a pivot row whose id matches no row causes
\* no write and no error.
C9_StrippedKeyExactMatch ==
    PassDone => RowsAsMatched(py.before[LastPass.sheet_name], py.wb[LastPass.sheet_name], LastPass,
                              LastPivot.pivot_data, TRUE)

\* a pass wrote the row whose key cell has trailing whitespace, from a
\* pivot that also has ids matching no row
C9_Witness ==
    /\ PassDone
    /\ \E r \in 3..max_row(py.before[LastPass.sheet_name]) :
          /\ PyStr(CellAt(py.before[LastPass.sheet_name], r, LastPass.key_col).value)
                # Strip(PyStr(CellAt(py.before[LastPass.sheet_name], r, LastPass.key_col).value))
          /\ CellAt(py.wb[LastPass.sheet_name], r, LastPass.col).value
                \in AmountsFor(LastPivot.pivot_data, Strip(PyStr(CellAt(py.before[LastPass.sheet_name], r, LastPass.key_col).value)))
    /\ LastPass.updates_count < Cardinality(PivotIds(LastPivot.pivot_data))

(***************************************************************************)
(* Properties of the Column Namer (under SpecNamer)                        *)
(***************************************************************************)

\* the year, month and day texts of a date either namer accepted
DateFields(date) ==
    IF Contains(date, "-") THEN Split(date, "-")
    ELSE <<Split(date, "/")[3], Split(date, "/")[1], Split(date, "/")[2]>>

MonthDay(m, d) == "Net RTR " \o ToString(m) \o "/" \o ToString(d)

\* the policy as claimed: 2025 and two-digit years carry the two-digit
\* year, full years in the past carry none, any other year carries its
\* last two digits
ClaimedLabel(y, m, d) ==
    IF y = 2025 \/ (y >= 10 /\ y <= 99) THEN MonthDay(m, d) \o "/" \o ToString(y % 100)
    ELSE IF y >= 1000 /\ y < 2025 THEN MonthDay(m, d)
    ELSE MonthDay(m, d) \o "/" \o (IF y % 100 < 10 THEN "0" ELSE "") \o ToString(y % 100)

\* the policy as amended: 2025 and 25 carry "/25", any other year above
\* 2000 carries none, any other year is written out, padded to two digits
AmendedLabel(y, m, d) ==
    IF y = 2025 \/ y = 25 THEN MonthDay(m, d) \o "/25"
    ELSE IF y > 2000 THEN MonthDay(m, d)
    ELSE MonthDay(m, d) \o "/" \o (IF y < 10 THEN "0" ELSE "") \o ToString(y)

PyFields(f) == <<PyInt(f[1]).n, PyInt(f[2]).n, PyInt(f[3]).n>>
JsFields(f) == <<JsParseInt(f[1]).n, JsParseInt(f[2]).n, JsParseInt(f[3]).n>>

LabelsAre(claimed) ==
    /\ ("py" \in nm.applied /\ nm.py.ok) =>
          nm.py.label = IF claimed THEN ClaimedLabel(PyFields(DateFields(nm.date))[1], PyFields(DateFields(nm.date))[2],
                                                     PyFields(DateFields(nm.date))[3])
                        ELSE AmendedLabel(PyFields(DateFields(nm.date))[1], PyFields(DateFields(nm.date))[2],
                                          PyFields(DateFields(nm.date))[3])
    /\ ("js" \in nm.applied /\ nm.js.ok) =>
          nm.js.label = IF claimed THEN ClaimedLabel(JsFields(DateFields(nm.date))[1], JsFields(DateFields(nm.date))[2],
                                                     JsFields(DateFields(nm.date))[3])
                        ELSE AmendedLabel(JsFields(DateFields(nm.date))[1], JsFields(DateFields(nm.date))[2],
                                          JsFields(DateFields(nm.date))[3])

Examples ==
    /\ (nm.date = "2025-01-17" /\ nm.applied = {"py", "js"}) =>
          (nm.py = [ok |-> TRUE, label |-> "Net RTR 1/17/25"] /\ nm.js = nm.py)
    /\ (nm.date = "2023-06-02" /\ nm.applied = {"py", "js"}) =>
          (nm.py = [ok |-> TRUE, label |-> "Net RTR 6/2"] /\ nm.js = nm.py)

ScenarioOn(wb) ==
    /\ Len(hist) = 0
    /\ py.pc = "loop"
    /\ Len(py.passes) = 1
    /\ pyGlobals.workbook_array.sheets = wb
    /\ pyGlobals.report_date = "2025-03-14"
    /\ pyGlobals.pivot_tables_json[1] = FunderPivot("X", "FunderX", <<PivotRow("A1", 500)>>)

HeaderInD == CellAt(py.wb["FunderX"], header_row, 4).value = StrVal("Net RTR 3/14/25") /\ py.passes[1].col = 4

RowThreeWritten ==
    /\ CellAt(py.wb["FunderX"], 3, 4).value = NumVal(500)
    /\ CellAt(py.wb["FunderX"], 3, 4).number_format = "$#,##0.00"
    /\ py.passes[1].updates_count = 1

\* C11 as stated: with row-2 headers "ID", "Name", "Amt" the patch writes
\* the header "Net RTR 3/14/25" in column 4, gives the row whose ID is "A1"
\* 500 with the currency format in column 4, and counts one update.
C11_AsStated == ScenarioOn(WbPlain) => (HeaderInD /\ RowThreeWritten)

\* C11: with row-2 headers "ID", "Name", "Amt" the patch writes the header
\* "Net RTR 3/14/25" in column 4 but takes column 5 as the key column, so
\* the row whose ID is "A1" gets nothing and the count is 0; with row-2
\* headers "Funder Advance ID", "Merchant", "Amt" the header goes to
\* column 4, the row whose id is "A1" gets 500 with the currency format in
\* column 4 and the count is 1.
C11_EndToEnd ==
    /\ ScenarioOn(WbPlain) =>
          /\ HeaderInD
          /\ py.passes[1].mode = "AppendAfterData"
          /\ py.passes[1].key_col = DefaultKeyColumn
          /\ py.passes[1].updates_count = 0
          /\ CellAt(py.wb["FunderX"], 3, 4).value = None
    /\ ScenarioOn(WbFresh) =>
          /\ HeaderInD
          /\ py.passes[1].mode = "AppendAfterData"
          /\ py.passes[1].key_col = 1
          /\ RowThreeWritten

\* the scenario has run on the workbook with the headers "ID", "Name", "Amt"
C11_Witness == ScenarioOn(WbPlain) /\ HeaderInD /\ py.passes[1].updates_count = 0

(***************************************************************************)
(* Ready, preload and invocation isolation (under Spec)                    *)
(***************************************************************************)

ReadyStays ==
    pyodideInstance # 0 =>
        /\ pyodideInstance' = pyodideInstance
        /\ attempts' = attempts
        /\ \A i \in Callers : Calls(i) => procs'[i].awaiting = [kind |-> "value", id |-> pyodideInstance]

\* C12: Ready is permanent.  Once an engine instance is stored, no step of
\* any caller (a failing update invocation included) changes it or starts a
\* bootstrap attempt, and every initialize() call made from then on returns
\* that instance.
C12_ReadyIsPermanent == [][ReadyStays]_vars

\* an update invocation has failed in the script, and another caller that
\* has just called initialize() holds the stored instance
C12_Witness ==
    \E i \in Updaters : \E j \in Callers \ {i} :
        /\ procs[i].pc = "rejected"
        /\ procs[i].error = "python"
        /\ procs[j].pc = "awaitInit"
        /\ procs[j].awaiting = [kind |-> "value", id |-> pyodideInstance]
        /\ pyodideInstance # 0

PreloadWaits ==
    /\ procs[0].pc = "awaitInit"
    /\ procs[0].awaiting.kind = "promise"
    /\ Pending(attempts[procs[0].awaiting.id])

\* C13 as stated: the operation returned by preload() does not wait for the
\* bootstrap attempt it started or joined, so it is never pending on an
\* attempt that has not settled.
C13_PreloadNeverWaits == ~PreloadWaits

\* C13: preload() awaits initialize().  The operation it returns completes
\* only when the attempt it started or joined has settled, and then it
\* resolves whether the attempt succeeded or failed (a failure is logged,
\* never rethrown).
C13_PreloadAwaitsAndSwallows ==
    /\ procs[0].pc # "rejected"
    /\ procs[0].pc = "done" =>
          /\ Settled(procs[0].awaiting)
          /\ procs[0].error = (IF Fulfilled(procs[0].awaiting) THEN "" ELSE "logged")

\* preload has returned after the attempt it waited on failed
C13_Witness ==
    /\ procs[0].pc = "done"
    /\ procs[0].awaiting.kind = "promise"
    /\ attempts[procs[0].awaiting.id] = "rejected"
    /\ procs[0].error = "logged"

IsResultFor(i, result) == result.ok /\ result.updated = procs[i].updatedArray

\* C14: invocation isolation.  The bytes an invocation holds after its
\* patch step are the result of the script on the workbook bytes, the pivot
\* tables and the report date that this invocation supplied.
C14_PatchesItsOwnInputs ==
    \A i \in Updaters :
        procs[i].pc = "saveDialog" =>
            \E out_magic \in {"PK", "XX"} :
                IsResultFor(i, RunScript(procs[i].fileData, procs[i].pivotTables, procs[i].reportDate, out_magic))

(***************************************************************************)
(* Funder order (under SpecPatch)                                          *)
(***************************************************************************)

Perms(n) == {f \in [1..n -> 1..n] : \A a \in 1..n : \A b \in 1..n : f[a] = f[b] => a = b}
Permuted(seq, f) == [k \in 1..Len(seq) |-> seq[f[k]]]
DistinctSheets(seq) ==
    \A a \in 1..Len(seq) : \A b \in 1..Len(seq) : seq[a].sheet_name = seq[b].sheet_name => a = b

\* the run that has ended, ended as result says
SameOutcome(result) ==
    /\ py.pc = "done" => (result.ok /\ result.updated = py.updated)
    /\ py.pc = "raised" => ~result.ok

OrderIrrelevant(pivot_tables) ==
    \A f \in Perms(Len(pivot_tables)) :
        SameOutcome(RunScript(pyGlobals.workbook_array, Permuted(pivot_tables, f), pyGlobals.report_date, "PK"))

\* C15 as stated: a run ends as the run on any permutation of its funder
\* list ends, also when two funder pivots name the same sheet.
C15_AnyOrderSameWorkbook == OrderIrrelevant(pyGlobals.pivot_tables_json)

\* C15: a run on a funder list whose pivots name distinct sheets ends as
\* the run on any permutation of the list ends: same saved workbook, or an
\* exception in both.
C15_DistinctSheetsAnyOrder ==
    DistinctSheets(pyGlobals.pivot_tables_json) => OrderIrrelevant(pyGlobals.pivot_tables_json)

\* a run of two funders of different sheets has ended, both with rows written
C15_Witness ==
    /\ py.pc = "done"
    /\ Len(py.passes) = 2
    /\ DistinctSheets(pyGlobals.pivot_tables_json)
    /\ py.passes[1].updates_count > 0
    /\ py.passes[2].updates_count > 0

(***************************************************************************)
(* Column placement (under SpecPatch)                                      *)
(***************************************************************************)

\* the text of a row-2 header as the scan reads it ("" for no header)
HeaderText(ws, c) ==
    IF Truthy(CellAt(ws, header_row, c).value) THEN Strip(PyStr(CellAt(ws, header_row, c).value)) ELSE ""

ExactColumns(ws, label) == {c \in 1..max_column(ws) : HeaderText(ws, c) = label}
FamilyColumns(ws) == {c \in 1..max_column(ws) : StartsWith(HeaderText(ws, c), "Net RTR")}
HeaderColumns(ws) == {c \in 1..max_column(ws) : HeaderText(ws, c) # ""}

\* the sheet of the pass that has just ended, before and after it
SheetBefore == py.before[LastPass.sheet_name]
SheetAfter == py.wb[LastPass.sheet_name]

PassEnded == py.pc \in {"loop", "done"} /\ Len(py.passes) > 0 /\ ~LastPass.skipped

PlacedByRule(before, after, pass, label) ==
    /\ pass.mode \in {"Replace", "InsertAfterPrior", "AppendAfterFamily", "AppendAfterData"}
    /\ ExactColumns(before, label) # {} =>
          /\ pass.mode = "Replace"
          /\ pass.col \in ExactColumns(before, label)
          /\ \A c \in 1..max_column(after) : CellAt(after, header_row, c) = CellAt(before, header_row, c)
    /\ ExactColumns(before, label) = {} =>
          /\ pass.mode # "Replace"
          /\ CellAt(after, header_row, pass.col).value = StrVal(label)
          /\ pass.mode = "InsertAfterPrior" => (pass.col - 1) \in FamilyColumns(before)
          /\ (pass.mode # "InsertAfterPrior" /\ FamilyColumns(before) # {}) =>
                (pass.mode = "AppendAfterFamily" /\ pass.col = MaxOf(FamilyColumns(before), 0) + 1)
          /\ (pass.mode # "InsertAfterPrior" /\ FamilyColumns(before) = {}) =>
                (pass.mode = "AppendAfterData" /\ pass.col = MaxOf(HeaderColumns(before), 1) + 1)

\* C16: placement precedence.  A pass on a sheet whose row 2 has the target
\* label is a Replace at a column with that label and writes no header;
\* otherwise the pass writes the label as header of its column, which is
\* the column after a prior-period column (a family column) when one was
\* found, else the column after the last header starting with "Net RTR"
\* when there is one, else the column after the last non-empty header.
C16_PlacementPrecedence == PassEnded => PlacedByRule(SheetBefore, SheetAfter, LastPass, py.net_rtr_column)

\* a second run placed its column after the column of the week before,
\* on a sheet that has later family columns or none
C16_Witness ==
    /\ PassEnded
    /\ Len(hist) > 0
    /\ LastPass.mode = "InsertAfterPrior"
    /\ ExactColumns(SheetBefore, py.net_rtr_column) = {}

\* the date 7 days before the report date whose fields are f
WeekBefore(f) == FromOrdinal(ToOrdinal(f[1], f[2], f[3]) - 7, f[1])

\* the label the Column Namer gives to the date 7 days before report_date
PriorPeriodLabel(report_date) ==
    YearLabel(WeekBefore(PyFields(DateFields(report_date))).year,
              WeekBefore(PyFields(DateFields(report_date))).month,
              WeekBefore(PyFields(DateFields(report_date))).day)

\* a report date the script accepts and that is a day of the calendar
AcceptedDate(report_date) ==
    /\ generate_net_rtr_column(report_date).ok
    /\ ValidDate(PyFields(DateFields(report_date))[1], PyFields(DateFields(report_date))[2],
                 PyFields(DateFields(report_date))[3])

PriorLabelColumns(ws, report_date) == {c \in FamilyColumns(ws) : HeaderText(ws, c) = PriorPeriodLabel(report_date)}

\* C17: for every accepted report date the pass on a sheet without the
\* target label is an InsertAfterPrior exactly when a family column holds
\* the Column Namer's label of the date 7 days earlier, and then its column
\* is the one after that column.
C17_OnePeriodBackSameRule ==
    (PassEnded /\ AcceptedDate(pyGlobals.report_date) /\ ExactColumns(SheetBefore, py.net_rtr_column) = {}) =>
        /\ LastPass.mode = "InsertAfterPrior" <=> PriorLabelColumns(SheetBefore, pyGlobals.report_date) # {}
        /\ LastPass.mode = "InsertAfterPrior" => (LastPass.col - 1) \in PriorLabelColumns(SheetBefore, pyGlobals.report_date)

(***************************************************************************)
(* Replace mode (under SpecPatch)                                          *)
(***************************************************************************)

ReplaceEnded == PassEnded /\ LastPass.mode = "Replace"

\* the rows of the target column that hold a value after the pass
FilledRows(ws, col) == {r \in 3..max_row(ws) : CellAt(ws, r, col).value # None}

RowMatchesPivot(ws, r, key_col, pivot_data) ==
    Truthy(CellAt(ws, r, key_col).value) /\ KeyOf(ws, r, key_col) \in PivotIds(pivot_data)

\* C18: Replace is not additive.  After a pass in Replace mode a data row
\* holds a value in the target column only if its key matches an id of the
\* pivot of this pass, and then the value is that pivot's amount; what the
\* column held before the pass does not survive in any other row.
C18_ReplaceNotAdditive ==
    ReplaceEnded =>
        \A r \in FilledRows(SheetAfter, LastPass.col) :
            /\ RowMatchesPivot(SheetBefore, r, LastPass.key_col, LastPivot.pivot_data)
            /\ CellAt(SheetAfter, r, LastPass.col).value
                  \in AmountsFor(LastPivot.pivot_data, KeyOf(SheetBefore, r, LastPass.key_col))

\* a later run replaced a column of an earlier run: a row the earlier run
\* had filled is empty now, and another row holds an amount of this pivot
C18_Witness ==
    /\ ReplaceEnded
    /\ Len(hist) > 0
    /\ FilledRows(SheetBefore, LastPass.col) \ FilledRows(SheetAfter, LastPass.col) # {}
    /\ FilledRows(SheetAfter, LastPass.col) # {}

(***************************************************************************)
(* Rows without a match (under SpecPatch)                                  *)
(***************************************************************************)

UnmatchedRows(ws, key_col, pivot_data) ==
    {r \in 3..max_row(ws) : ~RowMatchesPivot(ws, r, key_col, pivot_data)}

\* C19: once a funder pass has finished, in whichever placement mode, the
\* cell in its column of every data row whose key matches no pivot entry
\* holds no value.
C19_UnmatchedStayBlank ==
    PassEnded =>
        \A r \in UnmatchedRows(SheetBefore, LastPass.key_col, LastPivot.pivot_data) :
            CellAt(SheetAfter, r, LastPass.col).value = None

(***************************************************************************)
(* The data-row loop on a long sheet (under SpecRows)                      *)
(***************************************************************************)

RowsMatching(ws, key_col, pivot_data) ==
    {r \in 3..max_row(ws) : RowMatchesPivot(ws, r, key_col, pivot_data)}

\* C20: every data row from row 3 to the last populated row is examined:
\* after a pass each row whose key matches a lookup entry holds that
\* entry's amount in the column of the pass, and the count of updates is
\* the number of such rows.
C20_EveryRowExamined ==
    PassDone =>
        /\ \A r \in RowsMatching(SheetBefore, LastPass.key_col, LastPivot.pivot_data) :
              CellAt(SheetAfter, r, LastPass.col).value
                  \in AmountsFor(LastPivot.pivot_data, KeyOf(SheetBefore, r, LastPass.key_col))
        /\ LastPass.updates_count = Cardinality(RowsMatching(SheetBefore, LastPass.key_col, LastPivot.pivot_data))

(***************************************************************************)
(* The key column (under SpecRows)                                         *)
(***************************************************************************)

\* the columns whose row-2 header contains "Funder Advance ID"
KeyHeaderColumns(ws) ==
    {c \in 1..max_column(ws) :
        Truthy(CellAt(ws, header_row, c).value) /\ Contains(PyStr(CellAt(ws, header_row, c).value), "Funder Advance ID")}

KeyColumnByHeader(ws, key_col) ==
    IF KeyHeaderColumns(ws) = {} THEN key_col = DefaultKeyColumn
    ELSE key_col \in KeyHeaderColumns(ws) /\ \A c \in KeyHeaderColumns(ws) : key_col <= c

\* C21: whenever some row-2 header of the sheet contains "Funder Advance
\* ID" the key column of the pass is the first column with such a header;
\* it is the default column 5 only when no row-2 header contains that text.
C21_KeyColumnByHeader == PassEnded => KeyColumnByHeader(SheetAfter, LastPass.key_col)

(***************************************************************************)
(* The family columns across runs (under SpecPatch)                        *)
(***************************************************************************)

\* the workbook the first run was given, and the report dates of the runs
FirstWorkbook == IF Len(hist) = 0 THEN pyGlobals.workbook_array.sheets ELSE hist[1].workbook_array.sheets
RunDates == {hist[k].report_date : k \in 1..Len(hist)} \cup {pyGlobals.report_date}

DateOrdinal(report_date) ==
    ToOrdinal(PyFields(DateFields(report_date))[1], PyFields(DateFields(report_date))[2],
              PyFields(DateFields(report_date))[3])

\* the columns of ws whose header is the label of report_date
ColumnsOf(ws, report_date) == ExactColumns(ws, generate_net_rtr_column(report_date).label)

\* the columns of the runs' report dates stand in the order of the dates
InDateOrder(ws, dates) ==
    \A d1 \in dates, d2 \in dates :
        DateOrdinal(d1) < DateOrdinal(d2) =>
            \A c1 \in ColumnsOf(ws, d1), c2 \in ColumnsOf(ws, d2) : c1 < c2

RunsEnded == py.pc = "done" /\ \A d \in RunDates : AcceptedDate(d)

\* C22: chronological order.  After runs for report dates processed in any
\* order, on every sheet that had no "Net RTR" column before the first run,
\* the columns of those dates stand left to right in the order of the dates.
C22_ChronologicalOrder ==
    RunsEnded =>
        \A name \in DOMAIN py.wb :
            FamilyColumns(FirstWorkbook[name]) = {} => InDateOrder(py.wb[name], RunDates)

\* no two family columns of ws have the same header
NoDuplicateLabels(ws) ==
    \A c1 \in FamilyColumns(ws), c2 \in FamilyColumns(ws) :
        c1 # c2 => HeaderText(ws, c1) # HeaderText(ws, c2)

\* C23: no duplicate columns.  Whatever the report dates of the runs, their
\* order and their repetitions, no sheet of the workbook being patched has
\* two row-2 columns with the same "Net RTR" label.
C23_NoDuplicateColumns == \A name \in DOMAIN py.wb : NoDuplicateLabels(py.wb[name])

\* a run for a report date of an earlier run has ended, on a sheet that
\* has the column of that date
C23_Witness ==
    /\ py.pc = "done"
    /\ Len(hist) > 0
    /\ hist[1].report_date = pyGlobals.report_date
    /\ \E name \in DOMAIN py.wb : ExactColumns(py.wb[name], py.net_rtr_column) # {}

(***************************************************************************)
(* What a funder pass leaves alone (under SpecPatch)                       *)
(***************************************************************************)

\* every cell of ws outside column col is in `after` what it is in `before`
OtherColumnsKept(before, after, col) ==
    \A r \in 1..Max2(max_row(before), max_row(after)), c \in 1..Max2(max_column(before), max_column(after)) :
        c # col => CellAt(after, r, c) = CellAt(before, r, c)

\* C24: placement never shifts existing columns.  A funder pass changes
\* cells only in its placement column on the funder's sheet: every row-2
\* header and every data cell of any other column is what it was, and so
\* is every other sheet.
C24_OnlyPlacementColumnChanges ==
    PassEnded =>
        /\ OtherColumnsKept(SheetBefore, SheetAfter, LastPass.col)
        /\ \A name \in DOMAIN py.wb : name # LastPass.sheet_name => py.wb[name] = py.before[name]

\* a pass placed its column on a column that had a header, and wrote rows
C24_Witness ==
    /\ PassEnded
    /\ LastPass.mode = "InsertAfterPrior"
    /\ LastPass.updates_count > 0
    /\ HeaderText(SheetBefore, LastPass.col) # ""
    /\ DOMAIN py.wb # {LastPass.sheet_name}

(***************************************************************************)
(* The header of the placement column (under SpecPatch)                    *)
(***************************************************************************)

StyleOf(cell) == <<cell.font, cell.fill, cell.border, cell.alignment>>

HeaderAsPlaced(before, after, pass, label) ==
    IF pass.mode = "Replace"
    THEN /\ CellAt(after, header_row, pass.col) = CellAt(before, header_row, pass.col)
         /\ CellAt(after, 1, pass.col) = CellAt(before, 1, pass.col)
    ELSE /\ CellAt(after, header_row, pass.col).value = StrVal(label)
         /\ StyleOf(CellAt(after, header_row, pass.col)) = StyleOf(CellAt(before, header_row, pass.col - 1))

\* C25: header style is propagated only when a column is created.  In
\* Replace mode the row-2 cell of the target column keeps its value and its
\* font, fill, border and alignment, and row 1 of the column is unchanged;
\* in every other mode the new header cell has the font, fill, border and
\* alignment of the row-2 cell of the column to its left.
C25_HeaderStyleOnlyOnCreate == PassEnded => HeaderAsPlaced(SheetBefore, SheetAfter, LastPass, py.net_rtr_column)

\* a run replaced the column that the run before it had created after the
\* last header, with the style of that header
C25_Witness ==
    /\ ReplaceEnded
    /\ Len(hist) > 0
    /\ \E k \in 1..Len(hist[1].passes) :
          /\ hist[1].passes[k].mode = "AppendAfterData"
          /\ hist[1].passes[k].sheet_name = LastPass.sheet_name
          /\ hist[1].passes[k].col = LastPass.col
    /\ StyleOf(CellAt(SheetAfter, header_row, LastPass.col)) # StyleOf(EmptyCell)

(***************************************************************************)
(* Labels of distinct report dates (under SpecYears)                       *)
(***************************************************************************)

\* year, month and day of a report date, as numbers
DateOf(report_date) == PyFields(DateFields(report_date))

\* the year suffix a label carries for a year
SuffixClass(y) == IF y = 2025 \/ y = 25 THEN "25" ELSE IF y > 2000 THEN "none" ELSE "own"

\* same month and day, and years that are equal or both carry no suffix
\* or both carry "/25"
SameLabelClass(f, g) ==
    /\ f[2] = g[2]
    /\ f[3] = g[3]
    /\ SuffixClass(f[1]) = SuffixClass(g[1])
    /\ SuffixClass(f[1]) = "own" => f[1] = g[1]

\* the first pass of a later run on a sheet has ended
LaterPassEnded == PassEnded /\ Len(hist) > 0 /\ Len(py.passes) = 1 /\ AcceptedDate(pyGlobals.report_date)

\* the earlier runs that created or replaced a column on the sheet of the pass
RunsOnSheet(name) ==
    {k \in 1..Len(hist) :
        \E j \in 1..Len(hist[k].passes) : hist[k].passes[j].sheet_name = name /\ ~hist[k].passes[j].skipped}

\* C26 as stated: the report date of a later run, when it is another date
\* than those of the earlier runs, has another label than theirs, and its
\* pass is no Replace of a column an earlier run created.
C26_DistinctDatesDistinctLabels ==
    (LaterPassEnded /\ \A k \in 1..Len(hist) : DateOf(hist[k].report_date) # DateOf(pyGlobals.report_date)) =>
        /\ \A k \in 1..Len(hist) : generate_net_rtr_column(hist[k].report_date).label # py.net_rtr_column
        /\ LastPass.mode # "Replace"

\* C26: two report dates have the same label exactly when they have the
\* same month and day and years of the same suffix class (both 2025 or 25,
\* or both any other year above 2000, or the same year); the pass of a
\* later run is a Replace of a column created by an earlier run exactly
\* when an earlier run on that sheet had a date of the same label class.
C26_SameLabelIffSameClass ==
    LaterPassEnded =>
        /\ \A k \in 1..Len(hist) :
              (generate_net_rtr_column(hist[k].report_date).label = py.net_rtr_column)
                  <=> SameLabelClass(DateOf(hist[k].report_date), DateOf(pyGlobals.report_date))
        /\ LastPass.mode = "Replace"
              <=> \E k \in RunsOnSheet(LastPass.sheet_name) :
                     SameLabelClass(DateOf(hist[k].report_date), DateOf(pyGlobals.report_date))

\* a run for a date in 2024 replaced the column of a run for the same
\* month and day of 2023
C26_Witness ==
    /\ LaterPassEnded
    /\ LastPass.mode = "Replace"
    /\ DateOf(hist[1].report_date)[1] # DateOf(pyGlobals.report_date)[1]

(***************************************************************************)
(* Liveness of the provisioner (under SpecInitLive)                        *)
(***************************************************************************)

Waits(i) == procs[i].pc = "awaitInit"

\* a caller whose wait ends had a settled promise; an update invocation
\* goes on with the engine of the attempt when it succeeded and rejects
\* with the bootstrap error when it failed
SettlesAsAttempt ==
    \A i \in Callers :
        (Waits(i) /\ procs'[i].pc # "awaitInit") =>
            /\ Settled(procs[i].awaiting)
            /\ (i \in Updaters /\ Fulfilled(procs[i].awaiting)) =>
                  (procs'[i].pc = "backend" /\ procs'[i].pyodide = pyodideInstance /\ pyodideInstance # 0)
            /\ (i \in Updaters /\ ~Fulfilled(procs[i].awaiting)) =>
                  (procs'[i].pc = "rejected" /\ procs'[i].error = "bootstrap")

\* C27: when every bootstrap attempt succeeds or fails in the end, every
\* initialize() call settles: no caller waits for ever, a caller's wait
\* ends with the engine if the attempt it waited on succeeded and with the
\* error if it failed, and isInitializing does not stay true for ever.
C27_EveryCallSettles ==
    /\ \A i \in Callers : Waits(i) ~> ~Waits(i)
    /\ isInitializing ~> ~isInitializing
    /\ [][SettlesAsAttempt]_vars

\* two callers waited on the same attempt, it failed, and both waits ended
C27_Witness ==
    \E i \in Updaters : \E j \in Callers \ {i} :
        /\ procs[i].awaiting.kind = "promise"
        /\ procs[j].awaiting = procs[i].awaiting
        /\ attempts[procs[i].awaiting.id] = "rejected"
        /\ procs[i].pc = "rejected"
        /\ procs[j].pc \in {"rejected", "done"}
        /\ ~isInitializing

(***************************************************************************)
(* isInitialized() and isInitializing() (under SpecInit)                   *)
(***************************************************************************)

\* PyodideService.isInitialized() and PyodideService.isInitializing()
isInitializedResult == pyodideInstance # 0
isInitializingResult == isInitializing

\* C28: isInitialized() and isInitializing() are never both true, and
\* isInitializing() is true exactly while a bootstrap attempt is in flight.
C28_FlagsFollowTheAttempt ==
    /\ ~(isInitializedResult /\ isInitializingResult)
    /\ isInitializingResult <=> InFlight # {}

\* the retry after a failed attempt is in flight and the flag is up
C28_Witness ==
    /\ isInitializingResult
    /\ ~isInitializedResult
    /\ Len(attempts) = 2
    /\ attempts[1] = "rejected"
    /\ InFlight = {2}

(***************************************************************************)
(* preload() after a failed attempt (under SpecInit)                       *)
(***************************************************************************)

\* preload has returned from a wait on a failed attempt
PreloadSawFailure == procs[0].pc = "done" /\ ~Fulfilled(procs[0].awaiting)

\* nothing is stored and nothing is in flight
Uninitialized == pyodideInstance = 0 /\ ~isInitializing /\ initPromise = 0

\* the wait of preload ends in "done", whatever the attempt did
PreloadCompletes == (procs[0].pc = "awaitInit" /\ procs'[0].pc # "awaitInit") => procs'[0].pc = "done"

\* after preload saw a failure, a call made while nothing is in flight
\* starts a new attempt
CallAfterPreloadFailure ==
    \A i \in Updaters :
        (Calls(i) /\ PreloadSawFailure /\ pyodideInstance = 0 /\ InFlight = {}) =>
            (Len(attempts') = Len(attempts) + 1 /\ procs'[i].awaiting = [kind |-> "promise", id |-> Len(attempts')])

\* C29: preload() never rejects.  When the attempt it started or joined
\* fails, its wait still ends normally, the provisioner is Uninitialized
\* unless a later attempt has been started, and a later initialize() call
\* starts a new attempt.
C29_PreloadNeverRejects ==
    /\ [](procs[0].pc # "rejected")
    /\ []((PreloadSawFailure /\ pyodideInstance = 0 /\ InFlight = {}) => Uninitialized)
    /\ [][PreloadCompletes /\ CallAfterPreloadFailure]_vars

\* preload returned normally from the failed first attempt, and an update
\* invocation called later waits on a second attempt
C29_Witness ==
    /\ PreloadSawFailure
    /\ procs[0].awaiting = [kind |-> "promise", id |-> 1]
    /\ Len(attempts) = 2
    /\ \E i \in Updaters : procs[i].pc = "awaitInit" /\ procs[i].awaiting = [kind |-> "promise", id |-> 2]

(***************************************************************************)
(* The save dialog and the write (under SpecReady)                         *)
(***************************************************************************)

Cancelled(p) == p.pc = "rejected" /\ p.error = "Save cancelled by user"

\* the writeFile calls of invocation i so far: at most one, of the bytes of
\* the script, to the path the dialog returned
WritesOf(i) ==
    /\ Len(files[i]) <= 1
    /\ Len(files[i]) = 1 =>
          /\ files[i][1].path = procs[i].filePath
          /\ files[i][1].path # ""
          /\ files[i][1].bytes # NoBytes
          /\ procs[i].pc \in {"writeFile", "done", "rejected"}
    /\ Cancelled(procs[i]) => (files[i] = <<>> /\ procs[i].filePath = "")

\* writeFile is called in the step in which the dialog returns a path, with
\* the bytes the invocation holds; a dialog that is left without a path
\* rejects the invocation with "Save cancelled by user"
WriteFollowsDialog ==
    \A i \in Updaters :
        /\ files'[i] # files[i] =>
              /\ procs[i].pc = "saveDialog"
              /\ procs'[i].pc = "writeFile"
              /\ procs[i].updatedArray # NoBytes
              /\ files'[i] = <<[path |-> procs'[i].filePath, bytes |-> procs[i].updatedArray]>>
        /\ (procs[i].pc = "saveDialog" /\ procs'[i].pc = "rejected" /\ files'[i] = files[i]) =>
              procs'[i].error \in {"Save cancelled by user", "collaborator"}

\* C30: a file is written only to a path the user chose.  Every invocation
\* calls writeFile at most once, in the step in which the save dialog
\* returns a path and with the bytes the script produced; an invocation
\* whose dialog was cancelled rejects with "Save cancelled by user" and has
\* written nothing.
C30_WriteOnlyToChosenPath == [](\A i \in Updaters : WritesOf(i)) /\ [][WriteFollowsDialog]_vars

\* one invocation wrote its file to the chosen path and resolved, another
\* was cancelled in the dialog and wrote nothing
C30_Witness ==
    \E i \in Updaters : \E j \in Updaters \ {i} :
        /\ procs[i].pc = "done"
        /\ Len(files[i]) = 1
        /\ files[i][1].path = "Downloads/Updated.xlsx"
        /\ Cancelled(procs[j])
        /\ files[j] = <<>>

====
